---- MODULE Spec2Model ----
(***************************************************************************)
(* The Notion -> relational mirror of app/notion.py: one sync pass          *)
(* (sync_notion_pages / sync_notion_projects) over a collection, run inside *)
(* one session_scope() transaction, with the reconciliation step, the       *)
(* per-record change detection, the cover pipeline and the entity upsert.    *)
(*                                                                         *)
(* Further sections model the collection query, the revalidation webhook,  *)
(* one cover acquisition with its temporary files, and the two threads of   *)
(* app/main.py (event loop and scheduler) that start passes.                *)
(***************************************************************************)
EXTENDS Integers, Sequences, FiniteSets, TLC

\* ------------------------------------------------------------------ bounds
\* last_edited_time values of the external records: 1..MaxTime
MaxTime == 2
\* bytes of the body of a cover source: 1..MaxBody
MaxBody == 4
\* width and height of a cover image, in pixels: 1..MaxEdge
MaxEdge == 3

\* ------------------------------------------------------------------ domains
None == "None"

POST_DATABASE_ID == "posts_db"
PROJECT_DATABASE_ID == "projects_db"
DatabaseIds == {POST_DATABASE_ID, PROJECT_DATABASE_ID}

PageIds == {"A", "B"}
Times == 1..MaxTime
NoTime == 0
NoIso == <<>>
IsoTimes == {<<t, "Z">> : t \in Times}
StatusIds == {"S1", "S2"}
TagIds == {"T1", "T2"}

\* a date string that datetime.fromisoformat rejects
BadIso == <<0, "?">>

\* the time-limited signed URL of a record's cover; stored URLs are <<kind, page id>>
NoUrl == <<>>
SignedUrl(page_id) == <<"signed", page_id>>

\* A Notion `status` property value: absent, or an option (id, name, color).
StatusProps ==
    {[id |-> None, name |-> None, color |-> None],
     [id |-> "S1", name |-> "done", color |-> "green"],
     [id |-> "S2", name |-> "draft", color |-> "gray"],
     [id |-> "S2", name |-> "draft", color |-> "red"],
     [id |-> "S2", name |-> "done", color |-> "green"]}

\* The merged tag list of a record (ids of the multi_select options).
TagLists == {<<>>, <<"T1">>, <<"T2">>, <<"T1", "T2">>}

\* item["cover"]: absent, an uploaded file (signed URL) or an external link.
CoverKinds == {"none", "file", "external"}

\* What the environment does to one cover acquisition.
DownloadOutcomes == {"ok", "reject", "error"}
UploadOutcomes == {"ok", "client_error", "error"}
AllCoverEnvs ==
    [download : DownloadOutcomes,   \* _download_stream_to_temp
     image : BOOLEAN,               \* content-type image/* or PIL opens it
     process : BOOLEAN,             \* _process_image_to_limit returns a result
     upload : UploadOutcomes,       \* s3.upload_file
     local : BOOLEAN]               \* the write under static/covers succeeds
\* one representative per path: the outcome of a stage that an earlier
\* failure keeps from running is fixed to success
CoverEnvs ==
    {e \in AllCoverEnvs :
        /\ e.download # "ok" => e.image
        /\ ~(e.download = "ok" /\ e.image) => e.process
        /\ ~(e.download = "ok" /\ e.image /\ e.process) => e.upload = "ok" /\ e.local}
OkEnv == [download |-> "ok", image |-> TRUE, process |-> TRUE, upload |-> "ok", local |-> TRUE]

\* Process configuration (environment variables read at import).
Configs ==
    [S3_BUCKET : BOOLEAN, S3_PUBLIC_BASE_URL : BOOLEAN, COVER_DOWNLOAD_ENABLED : BOOLEAN]
\* the defaults of the module: no bucket, no CDN base, downloads enabled
DefaultConfig ==
    [S3_BUCKET |-> FALSE, S3_PUBLIC_BASE_URL |-> FALSE, COVER_DOWNLOAD_ENABLED |-> TRUE]

\* ------------------------------------------------------------------ state
VARIABLES
    cfg,          \* the process configuration
    db,           \* committed rows: [pages, statuses, tags]
    tx,           \* the session's view of the rows (its open transaction)
    pc,           \* "idle" | "fetched" | "loop" | "committed"
    database_id,  \* the collection of the running pass
    results,      \* the fetched snapshot: sequence of [id, last_edited_time]
    idx,          \* position of the for-loop in results
    created,
    updated,
    parsed,       \* the canonical record of the last item the loop processed
    local_cover_path,  \* what the cover pipeline returned for it
    cover_failed, \* a stage of that cover acquisition failed
    parseCalls,   \* _parse_properties invocations of the running pass
    coverCalls,   \* _download_cover_if_available invocations of the running pass
    last,         \* the pass that has just ended, if it committed: [database_id, results]
    repeat,       \* the running pass re-syncs `last` with an identical snapshot
    ret,          \* how the last finished pass ended
    revalidated   \* tags posted to the revalidation webhook by the last finished pass

\* the remote side of a fetch
VARIABLES
    remote,       \* the records the collection held when it was last queried
    served,       \* the status codes the API would give to successive attempts
    attempts      \* requests the last fetch sent

\* the revalidation webhook
VARIABLES
    webhook,      \* [REVALIDATE_URL, WEBHOOK_SECRET]: whether each is configured
    posted        \* the last _post_revalidate call: requests sent, how it ended

\* one cover acquisition and the files it works on
VARIABLES
    acq,          \* the acquisition of the record at the loop position
    tempdir,      \* the temporary files that exist
    static_dir,   \* static/covers: file name -> content
    bucket        \* the S3 bucket: key -> content

\* the threads of the web process that run passes
VARIABLES
    lifespan,     \* "startup" | "serving"
    loop_task,    \* what the event-loop thread runs
    sched_task    \* what the scheduler's worker thread runs

\* two passes at once, each in its own session on the one database
VARIABLES
    notion,       \* the remote pages: id -> [parent, last_edited_time]
    sess          \* per thread: the pass it runs and its session's uncommitted rows

\* the read API
VARIABLES
    reply         \* the answer to the last read request

passVars == <<cfg, db, tx, pc, database_id, results, idx, created, updated, parsed,
              local_cover_path, cover_failed, parseCalls, coverCalls, last, repeat,
              ret, revalidated>>
fetchVars == <<remote, served, attempts>>
notifyVars == <<webhook, posted>>
assetVars == <<acq, tempdir, static_dir, bucket>>
threadVars == <<lifespan, loop_task, sched_task>>
sessionVars == <<notion, sess>>
readVars == <<reply>>

\* what a pass modelled on its own leaves alone
others == <<fetchVars, notifyVars, assetVars, threadVars, sessionVars, readVars>>

vars == <<passVars, fetchVars, notifyVars, assetVars, threadVars, sessionVars, readVars>>

\* the locals of a running pass
locals == <<database_id, results, idx, created, updated, parsed, local_cover_path,
            cover_failed, parseCalls, coverCalls, repeat>>

EmptyDb == [pages |-> <<>>, statuses |-> <<>>, tags |-> {}]
NoPass == [database_id |-> None, results |-> <<>>]
NoRet == [outcome |-> None, created |-> 0, updated |-> 0, total |-> 0]
NoParsed ==
    [id |-> None, database_id |-> None, status_prop |-> [id |-> None, name |-> None, color |-> None],
     status_id |-> None, tags_prop |-> <<>>, cover_url |-> NoUrl,
     last_edited_time |-> NoIso,
     props |-> <<>>, title |-> None, slug |-> None, written_date |-> NoIso,
     cover_expiry_time |-> NoIso, item_url |-> None, public_url |-> None,
     created_time |-> NoIso, created_by_id |-> None, last_edited_by_id |-> None,
     archived |-> None, in_trash |-> None, pin |-> "false"]

Range(s) == {s[i] : i \in DOMAIN s}

\* ------------------------------------------------------------------ helpers
\* _iso_to_dt: an absent/empty value is None, an ISO string <<instant, offset form>>
\* is the instant it denotes ("Z" is read as "+00:00").
IsoToDt(value) == IF value = NoIso THEN NoTime ELSE value[1]

\* _iso_to_dt raises: datetime.fromisoformat has no except clause around it
IsoToDtRaises(value) == value = BadIso

\* _compute_incoming_ids
ComputeIncomingIds(res) == {res[i].id : i \in DOMAIN res} \ {None}

\* (mutant) the missing pages are deleted from the table instead of flagged
MarkOneScopeRemoves(s, incoming_ids, dbid) ==
    LET existing_ids == {p \in DOMAIN s.pages : s.pages[p].database_id = dbid}
        missing_ids == existing_ids \ incoming_ids
    IN  [s EXCEPT !.pages = [p \in DOMAIN s.pages \ missing_ids |-> s.pages[p]]]

\* (mutant) the difference is taken the wrong way round: nothing stored is missing
MarkOneScopeReversed(s, incoming_ids, dbid) ==
    LET existing_ids == {p \in DOMAIN s.pages : s.pages[p].database_id = dbid}
        missing_ids == incoming_ids \ existing_ids
    IN  [s EXCEPT !.pages =
            [p \in DOMAIN s.pages |->
                IF s.pages[p].database_id = dbid /\ p \in missing_ids
                THEN [s.pages[p] EXCEPT !.is_deleted = TRUE]
                ELSE s.pages[p]]]

\* (mutant) neither query filters on the collection
MarkOneScopeUnscoped(s, incoming_ids, dbid) ==
    LET existing_ids == DOMAIN s.pages
        missing_ids == existing_ids \ incoming_ids
    IN  [s EXCEPT !.pages =
            [p \in DOMAIN s.pages |->
                IF p \in missing_ids
                THEN [s.pages[p] EXCEPT !.is_deleted = TRUE]
                ELSE s.pages[p]]]

\* _mark_missing_pages_deleted, past its two early returns
MarkOneScope(s, incoming_ids, dbid) ==
    LET existing_ids == {p \in DOMAIN s.pages : s.pages[p].database_id = dbid}
        missing_ids == existing_ids \ incoming_ids
    IN  [s EXCEPT !.pages =
            [p \in DOMAIN s.pages |->
                IF s.pages[p].database_id = dbid /\ p \in missing_ids
                THEN [s.pages[p] EXCEPT !.is_deleted = TRUE]
                ELSE s.pages[p]]]

\* _mark_missing_pages_deleted
MarkMissingPagesDeleted(s, incoming_ids, dbid) ==
    IF incoming_ids = {} THEN s ELSE MarkOneScope(s, incoming_ids, dbid)

\* _parse_properties: the canonical record of an item
ParseProperties(item) ==
    [id |-> item.id,
     status_id |-> None,
     database_id |-> item.parent,
     props |-> item.properties,
     title |-> IF item.title = "" THEN None ELSE item.title,
     slug |-> IF item.slug = "" THEN None ELSE item.slug,
     written_date |-> item.written_date,
     status_prop |-> item.status,
     tags_prop |-> item.tags,
     cover_url |-> IF item.cover = "file" THEN SignedUrl(item.id) ELSE NoUrl,
     cover_expiry_time |-> IF item.cover = "file" THEN item.expiry_time ELSE NoIso,
     item_url |-> item.url,
     public_url |-> item.public_url,
     created_time |-> item.created_time,
     last_edited_time |-> item.last_edited_time,
     created_by_id |-> item.created_by,
     last_edited_by_id |-> item.last_edited_by,
     archived |-> item.archived,
     in_trash |-> item.in_trash,
     pin |-> IF item.pin = None THEN "false" ELSE item.pin]

\* (mutant) an existing row takes the name and the color of the record
UpsertStatusOverwrites(s, status_prop) ==
    IF status_prop.id = None
    THEN [session |-> s, status_id |-> None]
    ELSE [session |->
             [s EXCEPT !.statuses =
                 (status_prop.id :> [name |-> status_prop.name,
                                     color |-> status_prop.color]) @@ s.statuses],
          status_id |-> status_prop.id]

\* (mutant) the id is returned but a missing Status row is not added
UpsertStatusNoAdd(s, status_prop) ==
    [session |-> s, status_id |-> status_prop.id]

\* _upsert_status_if_needed: [session, status_id]
UpsertStatusIfNeeded(s, status_prop) ==
    IF status_prop.id = None
    THEN [session |-> s, status_id |-> None]
    ELSE [session |->
             IF status_prop.id \in DOMAIN s.statuses
             THEN s
             ELSE [s EXCEPT !.statuses =
                      (status_prop.id :> [name |-> status_prop.name,
                                          color |-> status_prop.color]) @@ s.statuses],
          status_id |-> status_prop.id]

\* The body of the try block of _download_cover_if_available, for a cover
\* URL that is present and with downloads enabled: [raised, url].
CoverPipeline(page_id, e) ==
    IF e.download # "ok" THEN [raised |-> FALSE, url |-> NoUrl]
    ELSE IF ~e.image THEN [raised |-> FALSE, url |-> NoUrl]
    ELSE IF ~e.process THEN [raised |-> FALSE, url |-> NoUrl]
    ELSE IF cfg.S3_BUCKET
         THEN IF e.upload = "ok"
              THEN [raised |-> FALSE,
                    url |-> IF cfg.S3_PUBLIC_BASE_URL THEN <<"cdn", page_id>>
                                                      ELSE <<"s3", page_id>>]
              ELSE IF e.local
                   THEN [raised |-> FALSE, url |-> <<"local", page_id>>]
                   ELSE [raised |-> TRUE, url |-> NoUrl]
         ELSE IF e.local
              THEN [raised |-> FALSE, url |-> <<"local", page_id>>]
              ELSE [raised |-> TRUE, url |-> NoUrl]

\* (mutant) without the outer `except Exception`
DownloadCoverNoCatch(cover_url, page_id, e) ==
    IF cover_url = NoUrl THEN [raised |-> FALSE, url |-> NoUrl]
    ELSE IF ~cfg.COVER_DOWNLOAD_ENABLED THEN [raised |-> FALSE, url |-> NoUrl]
    ELSE CoverPipeline(page_id, e)

\* _download_cover_if_available: [raised, url]; the outer `except Exception`
\* turns every exception of the body into an absent cover.
DownloadCoverIfAvailable(cover_url, page_id, e) ==
    IF cover_url = NoUrl THEN [raised |-> FALSE, url |-> NoUrl]
    ELSE IF ~cfg.COVER_DOWNLOAD_ENABLED THEN [raised |-> FALSE, url |-> NoUrl]
    ELSE [raised |-> FALSE, url |-> CoverPipeline(page_id, e).url]

\* page.cover_url = local_cover_path or parsed.get("cover_url")
CoverUrlToStore(cover_path, rec) ==
    IF cover_path # NoUrl THEN cover_path ELSE rec.cover_url

\* the elements of a list in the order of their first occurrence
RECURSIVE Distinct(_)
Distinct(list) ==
    IF list = <<>> THEN <<>>
    ELSE LET front == Distinct(SubSeq(list, 1, Len(list) - 1))
             x == list[Len(list)]
         IN  IF x \in Range(front) THEN front ELSE Append(front, x)

\* The unit of work on page.tags, u being [current, flushed, identity, stored,
\* pending, raised]: the list as it is in memory, the tag ids whose page_tags row
\* exists, the tags the session holds in its identity map, the tag rows that
\* exist, the Tag objects added and not yet flushed.
\* A flush inserts a page_tags row for every element of the list that was not in
\* the collection at the last flush, once per occurrence, and deletes the rows of
\* the elements that left it; (page_id, tag_id) is the primary key of page_tags.
FlushTags(u) ==
    LET added == SelectSeq(u.current, LAMBDA t : t \notin u.flushed)
    IN  IF Len(added) # Cardinality(Range(added))
        THEN [u EXCEPT !.raised = TRUE]
        ELSE [u EXCEPT !.flushed = Range(u.current),
                       !.stored = u.stored \cup u.pending,
                       !.pending = {}]

\* The tags loop of _upsert_page_and_relations from position i on. session.get
\* answers from the identity map when the tag is there; otherwise it queries, and
\* the query flushes the session first (autoflush). A tag the query does not find
\* is created and added, which leaves it pending, outside the identity map.
RECURSIVE TagsLoop(_, _, _)
TagsLoop(tags_prop, i, u) ==
    IF i > Len(tags_prop) THEN u
    ELSE LET tag_id == tags_prop[i]
         IN  IF tag_id = None THEN TagsLoop(tags_prop, i + 1, u)
             ELSE IF tag_id \in u.identity
             THEN TagsLoop(tags_prop, i + 1, [u EXCEPT !.current = Append(@, tag_id)])
             ELSE LET f == FlushTags(u)
                  IN  IF f.raised THEN f
                      ELSE IF tag_id \in f.stored
                      THEN TagsLoop(tags_prop, i + 1,
                                    [f EXCEPT !.current = Append(@, tag_id),
                                              !.identity = @ \cup {tag_id}])
                      ELSE TagsLoop(tags_prop, i + 1,
                                    [f EXCEPT !.current = Append(@, tag_id),
                                              !.pending = @ \cup {tag_id}])

\* page.tags.clear() (which loads the collection), the tags loop and the flush
\* that follows it, for a page associated with old_tags: whether a flush raises
TagsFlushRaises(stored_tags, old_tags, tags_prop) ==
    LET u == TagsLoop(tags_prop, 1,
                      [current |-> <<>>, flushed |-> Range(old_tags),
                       identity |-> Range(old_tags), stored |-> stored_tags,
                       pending |-> {}, raised |-> FALSE])
    IN  u.raised \/ FlushTags(u).raised

\* (mutant) without page.tags.clear()
RebuildTagsNoClear(old_tags, tags_prop) ==
    old_tags \o SelectSeq(tags_prop, LAMBDA t : t # None)

\* the tags loop of _upsert_page_and_relations: page.tags.clear(), then the
\* ids of tags_prop are appended (an entry without id is passed over)
RebuildTags(old_tags, tags_prop) == SelectSeq(tags_prop, LAMBDA t : t # None)

\* bool() of a JSON value that is absent, "true" or "false"
Bool(value) == value = "true"

\* the assignments of _upsert_page_and_relations to the columns of the page
PageRow(identity, last_edited_time, rec, cover_path, tags) ==
    [database_id |-> identity,
     url |-> rec.item_url,
     public_url |-> rec.public_url,
     created_time |-> IsoToDt(rec.created_time),
     last_edited_time |-> last_edited_time,
     created_by_user_id |-> rec.created_by_id,
     last_edited_by_user_id |-> rec.last_edited_by_id,
     archived |-> Bool(rec.archived),
     in_trash |-> Bool(rec.in_trash),
     cover_url |-> CoverUrlToStore(cover_path, rec),
     cover_expiry_time |-> IF rec.cover_expiry_time # NoIso
                           THEN IsoToDt(rec.cover_expiry_time) ELSE NoTime,
     pin |-> Bool(rec.pin),
     status_id |-> rec.status_id,
     slug |-> rec.slug,
     title |-> rec.title,
     written_date |-> IF rec.written_date # NoIso THEN rec.written_date[1] ELSE NoTime,
     raw_properties |-> rec.props,
     is_deleted |-> FALSE,
     tags |-> tags]

\* a date string of the record makes _upsert_page_and_relations raise
UpsertRaises(rec) ==
    \/ IsoToDtRaises(rec.created_time)
    \/ IsoToDtRaises(rec.last_edited_time)
    \/ rec.cover_expiry_time # NoIso /\ IsoToDtRaises(rec.cover_expiry_time)
    \/ rec.written_date # NoIso /\ IsoToDtRaises(rec.written_date)

\* (mutant) the columns of an existing row are kept
UpsertKeepsColumns(s, page_id, dbid, rec, cover_path) ==
    LET is_new == page_id \notin DOMAIN s.pages
        page == IF is_new
                THEN PageRow(dbid, IsoToDt(rec.last_edited_time), rec, cover_path,
                             SelectSeq(rec.tags_prop, LAMBDA t : t # None))
                ELSE [s.pages[page_id] EXCEPT
                         !.last_edited_time = IsoToDt(rec.last_edited_time),
                         !.is_deleted = FALSE]
    IN  [session |-> [s EXCEPT
                        !.pages = (page_id :> page) @@ s.pages,
                        !.tags = s.tags \cup Range(page.tags)],
         is_new |-> is_new,
         duplicate |-> FALSE]

\* (mutant) last_edited_time is written only when the row is created
UpsertKeepsTimestamp(s, page_id, dbid, rec, cover_path) ==
    LET is_new == page_id \notin DOMAIN s.pages
        page == PageRow(IF is_new THEN dbid ELSE s.pages[page_id].database_id,
                        IF is_new THEN IsoToDt(rec.last_edited_time)
                        ELSE s.pages[page_id].last_edited_time,
                        rec, cover_path,
                        SelectSeq(rec.tags_prop, LAMBDA t : t # None))
    IN  [session |-> [s EXCEPT
                        !.pages = (page_id :> page) @@ s.pages,
                        !.tags = s.tags \cup Range(page.tags)],
         is_new |-> is_new,
         duplicate |-> FALSE]

\* (mutant) is_new is never set
UpsertNeverNew(s, page_id, dbid, rec, cover_path) ==
    LET is_new == page_id \notin DOMAIN s.pages
        page == PageRow(IF is_new THEN dbid ELSE s.pages[page_id].database_id,
                        IsoToDt(rec.last_edited_time), rec, cover_path,
                        SelectSeq(rec.tags_prop, LAMBDA t : t # None))
    IN  [session |-> [s EXCEPT
                        !.pages = (page_id :> page) @@ s.pages,
                        !.tags = s.tags \cup Range(page.tags)],
         is_new |-> FALSE,
         duplicate |-> FALSE]

\* _upsert_page_and_relations: [session, is_new], and whether the flush of the
\* page's tags raises (the rows of page.tags are its distinct elements)
UpsertPageAndRelations(s, page_id, dbid, rec, cover_path) ==
    LET is_new == page_id \notin DOMAIN s.pages
        old_tags == IF is_new THEN <<>> ELSE s.pages[page_id].tags
        identity == IF is_new THEN dbid ELSE s.pages[page_id].database_id
        page == PageRow(identity, IsoToDt(rec.last_edited_time), rec, cover_path,
                        Distinct(RebuildTags(old_tags, rec.tags_prop)))
    IN  [session |-> [s EXCEPT
                        !.pages = (page_id :> page) @@ s.pages,
                        !.tags = s.tags \cup Range(page.tags)],
         is_new |-> is_new,
         duplicate |-> TagsFlushRaises(s.tags, old_tags, rec.tags_prop)]

\* (mutant) the stored datetime is compared with the raw string: never equal
IsUnchangedRawCompare(s, item) == FALSE

\* change detection of the for-loop: the record is skipped
IsUnchanged(s, item) ==
    /\ item.id \in DOMAIN s.pages
    /\ s.pages[item.id].last_edited_time # NoTime
    /\ IsoToDt(item.last_edited_time) # NoTime
    /\ s.pages[item.id].last_edited_time = IsoToDt(item.last_edited_time)

\* (mutant) statuses.name carries no unique constraint
FlushOkNoUnique(s) == TRUE

\* constraints a flush enforces: statuses.name is unique
FlushOk(s) ==
    \A a, b \in DOMAIN s.statuses :
        s.statuses[a].name = s.statuses[b].name => a = b

\* the tag both sync functions pass to _post_revalidate
RevalidateTag(dbid) == "posts"

\* ------------------------------------------------------------------ inputs
\* A snapshot: records with pairwise distinct page ids, in fetch order.
IdSeqs ==
    {q \in UNION {[1..n -> PageIds] : n \in 0..Cardinality(PageIds)} :
        \A i, j \in DOMAIN q : q[i] = q[j] => i = j}
Snapshots ==
    UNION {{[i \in DOMAIN q |-> [id |-> q[i], last_edited_time |-> t[i]]] :
                t \in [DOMAIN q -> IsoTimes]} : q \in IdSeqs}

\* The fields of a record that only _parse_properties reads.
Contents == [status : StatusProps, tags : TagLists, cover : CoverKinds]

\* The other fields of a record that _parse_properties reads: the title and slug
\* texts (joined), the start of the date property, the PIN checkbox, the property
\* bag, the expiry of the cover file and the page's own attributes.
DefaultFields ==
    [title |-> None, slug |-> None, written_date |-> NoIso, pin |-> None,
     properties |-> <<>>, expiry_time |-> NoIso, url |-> None, public_url |-> None,
     created_time |-> <<1, "Z">>, created_by |-> None, last_edited_by |-> None,
     archived |-> None, in_trash |-> None]

\* the item the query of collection dbid returned as `record`, with its content c
\* and fields f
ItemOf(record, dbid, c, f) ==
    [id |-> record.id,
     last_edited_time |-> record.last_edited_time,
     parent |-> dbid,
     status |-> c.status, tags |-> c.tags, cover |-> c.cover,
     title |-> f.title, slug |-> f.slug, written_date |-> f.written_date,
     pin |-> f.pin, properties |-> f.properties, expiry_time |-> f.expiry_time,
     url |-> f.url, public_url |-> f.public_url, created_time |-> f.created_time,
     created_by |-> f.created_by, last_edited_by |-> f.last_edited_by,
     archived |-> f.archived, in_trash |-> f.in_trash]

\* the item of the running pass at position i, with its content c and fields f
ItemAt(i, c, f) == ItemOf(results[i], database_id, c, f)

\* (mutant) the loop walks the snapshot from its end
ItemReversed(c) == ItemAt(Len(results) + 1 - idx, c, DefaultFields)

\* the item of the running pass at the loop position, with its content c
Item(c) == ItemAt(idx, c, DefaultFields)

\* ------------------------------------------------------------------ a pass
InitOver(Cfgs) ==
    /\ cfg \in Cfgs
    /\ db = EmptyDb
    /\ tx = EmptyDb
    /\ pc = "idle"
    /\ database_id = None
    /\ results = <<>>
    /\ idx = 0
    /\ created = 0
    /\ updated = 0
    /\ parsed = NoParsed
    /\ local_cover_path = NoUrl
    /\ cover_failed = FALSE
    /\ parseCalls = 0
    /\ coverCalls = 0
    /\ last = NoPass
    /\ repeat = FALSE
    /\ ret = NoRet
    /\ revalidated = <<>>

\* (mutant) the commit sits in the finally clause
SessionScopeAlwaysCommits(committed, session, raised) == session

\* the rows that are committed once the with-block of session_scope() is left:
\* commit on a normal exit, rollback when an exception passes through
SessionScopeExit(committed, session, raised) ==
    IF raised THEN committed ELSE session

\* the pass is over: its locals are gone
Finish(r, tags) ==
    /\ pc' = "idle"
    /\ last' = IF r.outcome = "ok"
               THEN [database_id |-> database_id, results |-> results] ELSE NoPass
    /\ database_id' = None
    /\ results' = <<>>
    /\ idx' = 0
    /\ created' = 0
    /\ updated' = 0
    /\ parsed' = NoParsed
    /\ local_cover_path' = NoUrl
    /\ cover_failed' = FALSE
    /\ parseCalls' = 0
    /\ coverCalls' = 0
    /\ repeat' = FALSE
    /\ ret' = r
    /\ revalidated' = tags

\* the pass propagates an exception; the counts are those reached when it was raised
Errors == {"HTTPError", "CoverError", "ValueError", "IntegrityError", "Exception"}
Raised(kind) ==
    [outcome |-> kind, created |-> created, updated |-> updated, total |-> Len(results)]

\* an exception leaves the with-block: rollback, close, re-raise
RaiseInScope(kind) ==
    /\ db' = SessionScopeExit(db, tx, TRUE)
    /\ tx' = db'
    /\ Finish(Raised(kind), <<>>)
    /\ UNCHANGED cfg

\* fetch_notion_data_for_db returns the snapshot snap of collection dbid
Fetch(dbid, snap) ==
    /\ pc = "idle"
    /\ pc' = "fetched"
    /\ database_id' = dbid
    /\ results' = snap
    /\ repeat' = (last = [database_id |-> dbid, results |-> snap])
    /\ last' = NoPass
    /\ ret' = NoRet
    /\ revalidated' = <<>>
    /\ UNCHANGED <<cfg, db, tx, idx, created, updated, parsed, local_cover_path,
                   cover_failed, parseCalls, coverCalls>>

\* (mutant) a failed query is handled like an empty collection whose stored pages
\* are all flagged
FetchFailTruncates(dbid) ==
    /\ pc = "idle"
    /\ Finish(Raised("HTTPError"), <<>>)
    /\ db' = [db EXCEPT !.pages =
                 [p \in DOMAIN db.pages |->
                     IF db.pages[p].database_id = dbid
                     THEN [db.pages[p] EXCEPT !.is_deleted = TRUE]
                     ELSE db.pages[p]]]
    /\ tx' = db'
    /\ UNCHANGED cfg

\* fetch_notion_data_for_db raises (raise_for_status, timeout): the pass ends
\* before a session exists
FetchFail(dbid) ==
    /\ pc = "idle"
    /\ Finish(Raised("HTTPError"), <<>>)
    /\ UNCHANGED <<cfg, db, tx>>

\* session_scope() opens, then _compute_incoming_ids and _mark_missing_pages_deleted
Reconcile ==
    /\ pc = "fetched"
    /\ tx' = MarkMissingPagesDeleted(db, ComputeIncomingIds(results), database_id)
    /\ idx' = 1
    /\ pc' = "loop"
    /\ UNCHANGED <<cfg, db, database_id, results, created, updated, parsed,
                   local_cover_path, cover_failed, parseCalls, coverCalls, last,
                   repeat, ret, revalidated>>

\* loop body, `continue` branch
SkipUnchanged ==
    /\ pc = "loop"
    /\ idx <= Len(results)
    /\ IsUnchanged(tx, results[idx])
    /\ idx' = idx + 1
    /\ UNCHANGED <<cfg, db, tx, pc, database_id, results, created, updated, parsed,
                   local_cover_path, cover_failed, parseCalls, coverCalls, last,
                   repeat, ret, revalidated>>

\* a stage of the acquisition e failed (whether or not a fallback then stored it)
StageFailed(cover_url, e) ==
    /\ cover_url # NoUrl
    /\ cfg.COVER_DOWNLOAD_ENABLED
    /\ \/ e.download # "ok"
       \/ ~e.image
       \/ ~e.process
       \/ cfg.S3_BUCKET /\ e.upload # "ok"
       \/ ~e.local /\ (~cfg.S3_BUCKET \/ e.upload # "ok")

\* loop body in the session s for the record `item`, new or changed, with the cover
\* outcomes e: the session after it, or the exception it raises (a last_edited_time
\* that cannot be parsed raises at the head of the body, before the record is
\* looked at; a record without an id becomes a row whose primary key is
\* null, which the flush cannot insert)
ProcessRecordIn(s, item, e) ==
    LET parsed0 == ParseProperties(item)
        st == UpsertStatusIfNeeded(s, parsed0.status_prop)
        rec == [parsed0 EXCEPT !.status_id = st.status_id]
        cover == DownloadCoverIfAvailable(rec.cover_url, item.id, e)
        up == UpsertPageAndRelations(st.session, item.id, rec.database_id,
                                     rec, cover.url)
    IN  [raised |-> IF IsoToDtRaises(item.last_edited_time) THEN "ValueError"
                    ELSE IF cover.raised THEN "CoverError"
                    ELSE IF UpsertRaises(rec) THEN "ValueError"
                    ELSE IF item.id = None THEN "IntegrityError"
                    ELSE IF up.duplicate \/ ~FlushOk(up.session) THEN "IntegrityError"
                    ELSE None,
         parsed |-> rec,
         cover |-> cover.url,
         session |-> up.session,
         is_new |-> up.is_new]

\* the loop body of the running pass
ProcessRecord(item, e) == ProcessRecordIn(tx, item, e)

ProcessItem(c, e) == ProcessRecord(Item(c), e)

\* the loop body runs to its end for the record `item`
UpsertRecord(item, e) ==
    /\ pc = "loop"
    /\ idx <= Len(results)
    /\ ~IsUnchanged(tx, results[idx])
    /\ LET r == ProcessRecord(item, e)
       IN  /\ r.raised = None
           /\ tx' = r.session
           /\ parsed' = r.parsed
           /\ local_cover_path' = r.cover
           /\ cover_failed' = StageFailed(r.parsed.cover_url, e)
           /\ created' = IF r.is_new THEN created + 1 ELSE created
           /\ updated' = IF r.is_new THEN updated ELSE updated + 1
    /\ parseCalls' = parseCalls + 1
    /\ coverCalls' = coverCalls + 1
    /\ idx' = idx + 1
    /\ UNCHANGED <<cfg, db, pc, database_id, results, last, repeat, ret, revalidated>>

UpsertItem(c, e) == UpsertRecord(Item(c), e)

\* the loop body raises for the record `item`: session_scope rolls back and re-raises
UpsertRecordRaises(item, e) ==
    /\ pc = "loop"
    /\ idx <= Len(results)
    /\ ~IsUnchanged(tx, results[idx])
    /\ LET r == ProcessRecord(item, e)
       IN  /\ r.raised # None
           /\ RaiseInScope(r.raised)

UpsertItemRaises(c, e) == UpsertRecordRaises(Item(c), e)

\* any other exception inside the with-block (a database error in a query,
\* in a flush or in the commit)
Rollback ==
    /\ pc \in {"fetched", "loop"}
    /\ RaiseInScope("Exception")

\* the with-block is left normally: session.commit()
Commit ==
    /\ pc = "loop"
    /\ idx > Len(results)
    /\ db' = SessionScopeExit(db, tx, FALSE)
    /\ pc' = "committed"
    /\ UNCHANGED <<cfg, tx, locals, last, ret, revalidated>>

\* (mutant) _post_revalidate is called whatever the counts are
ReturnAlwaysRevalidates ==
    /\ pc = "committed"
    /\ Finish([outcome |-> "ok", created |-> created, updated |-> updated,
               total |-> Len(results)],
              <<RevalidateTag(database_id)>>)
    /\ UNCHANGED <<cfg, db, tx>>

\* after the with-block: revalidation if anything changed, then the counts
Return ==
    /\ pc = "committed"
    /\ Finish([outcome |-> "ok", created |-> created, updated |-> updated,
               total |-> Len(results)],
              IF created > 0 \/ updated > 0
              THEN <<RevalidateTag(database_id)>> ELSE <<>>)
    /\ UNCHANGED <<cfg, db, tx>>

\* the cover outcomes that matter for content c
EnvsFor(c, Envs) == IF c.cover = "file" THEN Envs ELSE {OkEnv}

\* One step of the program, with the environment's inputs drawn from the
\* given sets: collections synced, snapshots fetched, record contents, cover outcomes.
NextOver(Dbs, Snaps, Conts, Envs) ==
    \/ \E d \in Dbs, snap \in Snaps : Fetch(d, snap) /\ UNCHANGED others
    \/ \E d \in Dbs : FetchFail(d) /\ UNCHANGED others
    \/ Reconcile /\ UNCHANGED others
    \/ SkipUnchanged /\ UNCHANGED others
    \/ \E c \in Conts : \E e \in EnvsFor(c, Envs) : UpsertItem(c, e) /\ UNCHANGED others
    \/ \E c \in Conts : \E e \in EnvsFor(c, Envs) : UpsertItemRaises(c, e) /\ UNCHANGED others
    \/ Rollback /\ UNCHANGED others
    \/ Commit /\ UNCHANGED others
    \/ Return /\ UNCHANGED others

\* ------------------------------------------------------------------ the collection query
Min(a, b) == IF a <= b THEN a ELSE b

\* status codes the Notion API answers with
StatusCodes == {200, 404, 429, 503}

\* Response.raise_for_status: HTTPError on a 4xx or a 5xx
RaisesForStatus(status_code) == status_code >= 400

\* The answer to one POST /v1/databases/{id}/query (sent without a cursor) for a
\* collection that holds coll, the API putting at most page_size records in a response.
QueryResponse(status_code, coll, page_size) ==
    [status_code |-> status_code,
     results |-> IF status_code = 200
                 THEN SubSeq(coll, 1, Min(page_size, Len(coll))) ELSE <<>>,
     has_more |-> status_code = 200 /\ page_size < Len(coll)]

\* fetch_notion_data_for_db, answers[i] being what an i-th request would be given:
\* one requests.post, raise_for_status, then the "results" of the body
FetchNotionDataForDb(answers) ==
    LET response == answers[1]
    IN  [raised |-> RaisesForStatus(response.status_code),
         results |-> response.results,
         requests |-> 1]

\* what the API would answer to successive attempts; nothing is attempted after a
\* 200 or a 404, so the sequences end there
ServedSeqs ==
    {<<200>>, <<404>>, <<429, 200>>, <<503, 200>>, <<503, 404>>, <<503, 503, 200>>,
     <<503, 503, 503>>}
\* page sizes of the API, the largest holding every collection
PageSizes == 1..Cardinality(PageIds)

Answers(coll, page_size, codes) ==
    [i \in DOMAIN codes |-> QueryResponse(codes[i], coll, page_size)]

\* the pass starts: the collection dbid holds coll and the query returns
QueryReturns(dbid, coll, page_size, codes) ==
    LET r == FetchNotionDataForDb(Answers(coll, page_size, codes))
    IN  /\ ~r.raised
        /\ Fetch(dbid, r.results)
        /\ remote' = coll
        /\ served' = codes
        /\ attempts' = r.requests

\* the pass starts and the query raises
QueryRaises(dbid, coll, page_size, codes) ==
    LET r == FetchNotionDataForDb(Answers(coll, page_size, codes))
    IN  /\ r.raised
        /\ FetchFail(dbid)
        /\ remote' = coll
        /\ served' = codes
        /\ attempts' = r.requests

\* ------------------------------------------------------------------ the revalidation webhook
\* how the POST to the webhook ends
PostOutcomes == {"2xx", "non2xx", "network_error", "timeout"}
Webhooks == [REVALIDATE_URL : BOOLEAN, WEBHOOK_SECRET : BOOLEAN]
\* REVALIDATE_URL has a default, WEBHOOK_SECRET has none
DefaultWebhook == [REVALIDATE_URL |-> TRUE, WEBHOOK_SECRET |-> FALSE]
NoPost == [called |-> FALSE, requests |-> 0, result |-> None, raised |-> FALSE]

\* (mutant) neither the url/secret check nor the except clauses
PostRevalidateUnguarded(tag, hook, outcome) ==
    [called |-> TRUE, requests |-> 1,
     result |-> IF outcome = "2xx" THEN "success" ELSE "error",
     raised |-> outcome # "2xx"]

\* _post_revalidate(tag): what the call did
PostRevalidate(tag, hook, outcome) ==
    IF ~hook.REVALIDATE_URL \/ ~hook.WEBHOOK_SECRET
    THEN [called |-> TRUE, requests |-> 0, result |-> "skip", raised |-> FALSE]
    ELSE [called |-> TRUE, requests |-> 1,
          result |-> IF outcome = "2xx" THEN "success"
                     ELSE IF outcome = "non2xx" THEN "failed"
                     ELSE "error",
          raised |-> FALSE]

\* the pass starts; the record of the previous pass's webhook call is dropped
FetchNotified(dbid, snap) ==
    /\ Fetch(dbid, snap)
    /\ posted' = NoPost
    /\ UNCHANGED webhook

\* the end of the sync function, the POST of _post_revalidate ending in outcome:
\* an exception of the call is passed over (try ... except Exception: pass)
ReturnNotified(outcome) ==
    /\ Return
    /\ posted' = IF created > 0 \/ updated > 0
                 THEN PostRevalidate(RevalidateTag(database_id), webhook, outcome)
                 ELSE NoPost
    /\ UNCHANGED webhook

\* ------------------------------------------------------------------ one cover acquisition
\* The limits of the pipeline, scaled down: soft < hard byte ceiling, the longer
\* edge allowed, the chunk size of the streamed download.
COVER_SOFT_MAX_BYTES == 2
COVER_HARD_MAX_BYTES == 3
COVER_MAX_DIM == 2
DOWNLOAD_CHUNK_SIZE == 2

\* sizes of images, <<width, height>>; <<>> for bytes that Pillow cannot open
Dims == {<<w, h>> : w, h \in 1..MaxEdge}
NoDims == <<>>
\* a declared Content-Length is <<n>>, a response without the header has <<>>
NoLength == <<>>

\* What is behind a cover URL: the status of the GET, the Content-Type and the
\* Content-Length headers, the bytes of the body, the image they encode.
AllSources ==
    [status_code : {200, 404},
     ctype : {"image", "other"},
     clen : {NoLength} \cup {<<n>> : n \in 1..MaxBody},
     body : 1..MaxBody,
     dims : {NoDims} \cup Dims]
\* one representative per path: nothing of a failed GET is read; a Content-Length
\* is read only against the hard ceiling; a body above the ceiling is never
\* opened; a Content-Type other than image/* only decides whether Pillow is asked
Sources ==
    {s \in AllSources :
        /\ s.status_code # 200 =>
              s.body = 1 /\ s.clen = NoLength /\ s.ctype = "image" /\ s.dims = NoDims
        /\ s.clen # NoLength => s.clen[1] = s.body /\ s.body > COVER_HARD_MAX_BYTES
        /\ s.body > COVER_HARD_MAX_BYTES => s.ctype = "image" /\ s.dims = NoDims
        /\ s.ctype = "other" => s.dims \in {NoDims, <<1, 1>>}}
NoSource ==
    [status_code |-> 200, ctype |-> "image", clen |-> NoLength, body |-> 1, dims |-> NoDims]

\* the content of a file or of an object: the downloaded bytes ("orig") with their
\* number, or a re-encoding of them ("reenc", whose size nothing reads: 0), and
\* the image it holds
NoContent == [kind |-> None, bytes |-> 0, dims |-> NoDims]

\* the names of the temporary files of an acquisition
TmpPath(page_id) == <<"tmp", page_id>>
OutPath(page_id) == <<"out", page_id>>

NoAcq ==
    [stage |-> "idle", page_id |-> None, src |-> NoSource, total |-> 0, written |-> 0,
     processed_path |-> NoUrl, processed |-> NoContent, env |-> OkEnv,
     reason |-> None, ret |-> NoUrl]

\* _download_cover_if_available returns
Done(a, env, reason, url) ==
    [a EXCEPT !.stage = "done", !.env = env, !.reason = reason, !.ret = url]

\* the record at the loop position needs an acquisition
AtCoverStep ==
    /\ pc = "loop"
    /\ idx <= Len(results)
    /\ ~IsUnchanged(tx, results[idx])
    /\ cfg.COVER_DOWNLOAD_ENABLED

\* _download_stream_to_temp up to the creation of the temporary file: the GET,
\* raise_for_status, the early reject by Content-Length
StartDownload(s) ==
    /\ AtCoverStep
    /\ acq.stage = "idle"
    /\ LET a == [NoAcq EXCEPT !.page_id = results[idx].id, !.src = s]
       IN  IF RaisesForStatus(s.status_code)
           THEN /\ acq' = Done(a, [OkEnv EXCEPT !.download = "error"], "http_error", NoUrl)
                /\ UNCHANGED tempdir
           ELSE IF s.clen # NoLength /\ s.clen[1] > COVER_HARD_MAX_BYTES
           THEN /\ acq' = Done(a, [OkEnv EXCEPT !.download = "reject"],
                               "content_length", NoUrl)
                /\ UNCHANGED tempdir
           ELSE /\ acq' = [a EXCEPT !.stage = "downloading"]
                /\ tempdir' = tempdir \cup {TmpPath(a.page_id)}
    /\ UNCHANGED <<static_dir, bucket>>

\* (mutant) the chunk is written before the total is compared with the ceiling
ReceiveChunkWritesFirst(n) ==
    /\ acq.stage = "downloading"
    /\ n <= acq.src.body - acq.total
    /\ LET total == acq.total + n
       IN  IF total > COVER_HARD_MAX_BYTES
           THEN /\ acq' = Done([acq EXCEPT !.total = total, !.written = acq.written + n],
                               [OkEnv EXCEPT !.download = "reject"], "stream_limit", NoUrl)
                /\ tempdir' = tempdir \ {TmpPath(acq.page_id)}
           ELSE /\ acq' = [acq EXCEPT !.total = total, !.written = acq.written + n]
                /\ UNCHANGED tempdir
    /\ UNCHANGED <<static_dir, bucket>>

\* one turn of the iter_content loop with a chunk of n bytes
ReceiveChunk(n) ==
    /\ acq.stage = "downloading"
    /\ n <= acq.src.body - acq.total
    /\ LET total == acq.total + n
       IN  IF total > COVER_HARD_MAX_BYTES
           THEN /\ acq' = Done([acq EXCEPT !.total = total],
                               [OkEnv EXCEPT !.download = "reject"], "stream_limit", NoUrl)
                /\ tempdir' = tempdir \ {TmpPath(acq.page_id)}
           ELSE /\ acq' = [acq EXCEPT !.total = total, !.written = acq.written + n]
                /\ UNCHANGED tempdir
    /\ UNCHANGED <<static_dir, bucket>>

\* iter_content or tmp.write raises before the body is complete: the finally
\* clause closes the file, the except clause of the function returns None
StreamError ==
    /\ acq.stage = "downloading"
    /\ acq.total < acq.src.body
    /\ acq' = Done(acq, [OkEnv EXCEPT !.download = "error"], "stream_error", NoUrl)
    /\ UNCHANGED <<tempdir, static_dir, bucket>>

\* (mutant) the downloaded file goes to the processing step unchecked
EndOfStreamSkipsValidation ==
    /\ acq.stage = "downloading"
    /\ acq.total = acq.src.body
    /\ acq' = [acq EXCEPT !.stage = "processing"]
    /\ UNCHANGED <<tempdir, static_dir, bucket>>

\* the body is complete: _download_stream_to_temp returns (path, ctype, total)
EndOfStream ==
    /\ acq.stage = "downloading"
    /\ acq.total = acq.src.body
    /\ acq' = [acq EXCEPT !.stage = "validating"]
    /\ UNCHANGED <<tempdir, static_dir, bucket>>

\* the image check: the Content-Type, else whether Pillow opens the file
IsImage(s) == s.ctype = "image" \/ s.dims # NoDims

Validate ==
    /\ acq.stage = "validating"
    /\ IF IsImage(acq.src)
       THEN /\ acq' = [acq EXCEPT !.stage = "processing"]
            /\ UNCHANGED tempdir
       ELSE /\ acq' = Done(acq, [OkEnv EXCEPT !.image = FALSE], "not_image", NoUrl)
            /\ tempdir' = tempdir \ {TmpPath(acq.page_id)}
    /\ UNCHANGED <<static_dir, bucket>>

LongEdge(dims) == IF dims[1] >= dims[2] THEN dims[1] ELSE dims[2]
Abs(n) == IF n >= 0 THEN n ELSE -n

\* pass-through test of _process_image_to_limit
PassesThrough(orig_size, dims, soft_limit, max_dim) ==
    /\ orig_size <= soft_limit
    /\ dims # NoDims
    /\ LongEdge(dims) <= max_dim

\* (mutant) the image is saved at its own size
ThumbnailKeepsSize(dims, max_dim) == dims

\* img.thumbnail((max_dim, max_dim)): an image that fits is left alone; otherwise
\* the longer edge becomes max_dim and the other edge is the floor or the ceiling
\* of its proportional length, whichever keeps the aspect ratio better, at least 1
Thumbnail(dims, max_dim) ==
    LET w == dims[1]
        h == dims[2]
    IN  IF max_dim >= w /\ max_dim >= h THEN dims
        ELSE IF h >= w
        THEN LET f == (max_dim * w) \div h
                 c == IF (max_dim * w) % h = 0 THEN f ELSE f + 1
                 x == IF Abs(w * max_dim - f * h) <= Abs(w * max_dim - c * h) THEN f ELSE c
             IN  <<IF x < 1 THEN 1 ELSE x, max_dim>>
        ELSE LET f == (max_dim * h) \div w
                 c == IF (max_dim * h) % w = 0 THEN f ELSE f + 1
                 y == IF f = 0 \/ Abs(w * f - max_dim * h) * c <= Abs(w * c - max_dim * h) * f
                      THEN f ELSE c
             IN  <<max_dim, IF y < 1 THEN 1 ELSE y>>

\* _process_image_to_limit on the downloaded file: what it returns, the file it
\* returns, whether it created the temporary output file
ProcessImageToLimit(orig_size, dims, soft_limit, max_dim, save_ok) ==
    IF PassesThrough(orig_size, dims, soft_limit, max_dim)
    THEN [returned |-> TRUE, path |-> "tmp", out_created |-> FALSE,
          content |-> [kind |-> "orig", bytes |-> orig_size, dims |-> dims]]
    ELSE IF dims = NoDims
    THEN [returned |-> FALSE, path |-> None, out_created |-> FALSE, content |-> NoContent]
    ELSE IF ~save_ok
    THEN [returned |-> FALSE, path |-> None, out_created |-> TRUE, content |-> NoContent]
    ELSE [returned |-> TRUE, path |-> "out", out_created |-> TRUE,
          content |-> [kind |-> "reenc", bytes |-> 0,
                       dims |-> Thumbnail(dims, max_dim)]]

\* step 2 of the pipeline; when the processing returns None the caller unlinks
\* the downloaded file
Process(save_ok) ==
    /\ acq.stage = "processing"
    /\ LET proc == ProcessImageToLimit(acq.written, acq.src.dims, COVER_SOFT_MAX_BYTES,
                                       COVER_MAX_DIM, save_ok)
           out == IF proc.out_created THEN {OutPath(acq.page_id)} ELSE {}
       IN  IF proc.returned
           THEN /\ acq' = [acq EXCEPT !.stage = "storing",
                                      !.processed_path =
                                          IF proc.path = "tmp" THEN TmpPath(acq.page_id)
                                          ELSE OutPath(acq.page_id),
                                      !.processed = proc.content]
                /\ tempdir' = tempdir \cup out
           ELSE /\ acq' = Done(acq, [OkEnv EXCEPT !.process = FALSE], "process_failed", NoUrl)
                /\ tempdir' = (tempdir \cup out) \ {TmpPath(acq.page_id)}
    /\ UNCHANGED <<static_dir, bucket>>

\* (mutant) an upload error is not followed by the local write
SaveCoverNoFallback(config, page_id, content, upload, local_ok, statics, objects) ==
    IF config.S3_BUCKET
    THEN IF upload = "ok"
         THEN [raised |-> FALSE,
               url |-> IF config.S3_PUBLIC_BASE_URL THEN <<"cdn", page_id>>
                                                    ELSE <<"s3", page_id>>,
               static_dir |-> statics,
               bucket |-> (page_id :> content) @@ objects]
         ELSE [raised |-> TRUE, url |-> NoUrl, static_dir |-> statics, bucket |-> objects]
    ELSE IF local_ok
         THEN [raised |-> FALSE, url |-> <<"local", page_id>>,
               static_dir |-> (page_id :> content) @@ statics, bucket |-> objects]
         ELSE [raised |-> TRUE, url |-> NoUrl, static_dir |-> statics, bucket |-> objects]

\* step 3 of the pipeline: the upload to the bucket with the local write as its
\* fallback, or the local write alone; `raised` when an exception leaves the block
SaveCover(config, page_id, content, upload, local_ok, statics, objects) ==
    IF config.S3_BUCKET
    THEN IF upload = "ok"
         THEN [raised |-> FALSE,
               url |-> IF config.S3_PUBLIC_BASE_URL THEN <<"cdn", page_id>>
                                                    ELSE <<"s3", page_id>>,
               static_dir |-> statics,
               bucket |-> (page_id :> content) @@ objects]
         ELSE IF local_ok
              THEN [raised |-> FALSE, url |-> <<"local", page_id>>,
                    static_dir |-> (page_id :> content) @@ statics, bucket |-> objects]
              ELSE [raised |-> TRUE, url |-> NoUrl, static_dir |-> statics,
                    bucket |-> objects]
    ELSE IF local_ok
         THEN [raised |-> FALSE, url |-> <<"local", page_id>>,
               static_dir |-> (page_id :> content) @@ statics, bucket |-> objects]
         ELSE [raised |-> TRUE, url |-> NoUrl, static_dir |-> statics, bucket |-> objects]

\* the outcomes of the storing step that are read under the configuration
StoreOutcomes ==
    {o \in [upload : UploadOutcomes, local : BOOLEAN] :
        /\ ~cfg.S3_BUCKET => o.upload = "ok"
        /\ (cfg.S3_BUCKET /\ o.upload = "ok") => o.local}

\* step 3 with its finally clauses (both temporary files are unlinked) and the
\* outer except clause (an exception becomes None)
Store(upload, local_ok) ==
    /\ acq.stage = "storing"
    /\ LET r == SaveCover(cfg, acq.page_id, acq.processed, upload, local_ok,
                          static_dir, bucket)
       IN  /\ acq' = Done(acq, [OkEnv EXCEPT !.upload = upload, !.local = local_ok],
                          IF r.raised THEN "store_failed" ELSE "stored",
                          IF r.raised THEN NoUrl ELSE r.url)
           /\ static_dir' = r.static_dir
           /\ bucket' = r.bucket
    /\ tempdir' = tempdir \ {acq.processed_path, TmpPath(acq.page_id)}

\* the loop body goes on with what the acquisition returned
UpsertCovered(c) ==
    /\ acq.stage = "done"
    /\ c.cover = "file"
    /\ UpsertItem(c, acq.env)
    /\ acq' = [NoAcq EXCEPT !.reason = acq.reason]
    /\ UNCHANGED <<tempdir, static_dir, bucket>>

\* ------------------------------------------------------------------ the rest of the process
\* no collection has been queried yet
InitFetch ==
    /\ remote = <<>>
    /\ served = <<>>
    /\ attempts = 0

InitNotifyOver(Hooks) ==
    /\ webhook \in Hooks
    /\ posted = NoPost
InitNotify == InitNotifyOver({DefaultWebhook})

InitAsset ==
    /\ acq = NoAcq
    /\ tempdir = {}
    /\ static_dir = <<>>
    /\ bucket = <<>>

\* A thread's task: who started it, the collections it still has to sync (the
\* first one is being synced) and the position of that pass.
IdleTask == [source |-> None, todo |-> <<>>, stage |-> None]
Task(source, todo) == [source |-> source, todo |-> todo, stage |-> "fetch"]

\* sync_all: sync_notion_pages, then sync_notion_projects
SyncAll == <<POST_DATABASE_ID, PROJECT_DATABASE_ID>>
\* the sync endpoints and the passes their handlers run
Endpoints == {"trigger_sync", "trigger_project_sync", "trigger_posts_sync"}
EndpointPasses(endpoint) ==
    CASE endpoint = "trigger_sync" -> <<POST_DATABASE_ID, PROJECT_DATABASE_ID>>
      [] endpoint = "trigger_project_sync" -> <<PROJECT_DATABASE_ID>>
      [] endpoint = "trigger_posts_sync" -> <<POST_DATABASE_ID>>

\* sync_all wraps each pass in try/except; an endpoint handler lets it propagate
Catches(source) == source \in {"startup", "tick"}

Running(task) == task.todo # <<>>
NextPass(task) ==
    IF Len(task.todo) > 1
    THEN [task EXCEPT !.todo = Tail(task.todo), !.stage = "fetch"]
    ELSE IdleTask

\* (mutant) sync_all has no try/except around a pass: a raise ends the whole task
AdvanceNoCatch(task, raises) ==
    IF raises /\ task.stage # "notify"
    THEN IdleTask
    ELSE CASE task.stage = "fetch" -> [task EXCEPT !.stage = "transaction"]
           [] task.stage = "transaction" -> [task EXCEPT !.stage = "notify"]
           [] task.stage = "notify" -> NextPass(task)

\* the task after one more step of its running pass: the fetch, the transaction,
\* the revalidation; `raises` says that the step raised (the revalidation never does)
Advance(task, raises) ==
    IF raises /\ task.stage # "notify"
    THEN IF Catches(task.source) THEN NextPass(task) ELSE IdleTask
    ELSE CASE task.stage = "fetch" -> [task EXCEPT !.stage = "transaction"]
           [] task.stage = "transaction" -> [task EXCEPT !.stage = "notify"]
           [] task.stage = "notify" -> NextPass(task)

InitThreads ==
    /\ lifespan = "startup"
    /\ loop_task = IdleTask
    /\ sched_task = IdleTask

\* lifespan: scheduler.start(), then the initial sync_all() in the event-loop thread
StartScheduler ==
    /\ lifespan = "startup"
    /\ lifespan' = "initial"
    /\ loop_task' = Task("startup", SyncAll)
    /\ UNCHANGED sched_task

\* lifespan: the initial sync is over, the application starts to serve
Serve ==
    /\ lifespan = "initial"
    /\ ~Running(loop_task)
    /\ lifespan' = "serving"
    /\ UNCHANGED <<loop_task, sched_task>>

\* the interval of the job elapses; max_instances=1 skips the run while the
\* previous one is still executing
Tick ==
    /\ lifespan \in {"initial", "serving"}
    /\ ~Running(sched_task)
    /\ sched_task' = Task("tick", SyncAll)
    /\ UNCHANGED <<lifespan, loop_task>>

\* a POST to a sync endpoint: its coroutine runs the passes in the event-loop thread
Request(endpoint) ==
    /\ lifespan = "serving"
    /\ ~Running(loop_task)
    /\ loop_task' = Task(endpoint, EndpointPasses(endpoint))
    /\ UNCHANGED <<lifespan, sched_task>>

\* the event-loop thread takes a step of its pass
LoopStep(raises) ==
    /\ Running(loop_task)
    /\ loop_task' = Advance(loop_task, raises)
    /\ UNCHANGED <<lifespan, sched_task>>

\* the scheduler's worker thread takes a step of its pass
SchedStep(raises) ==
    /\ Running(sched_task)
    /\ sched_task' = Advance(sched_task, raises)
    /\ UNCHANGED <<lifespan, loop_task>>

\* ------------------------------------------------------------------ two sessions
\* The event-loop thread (the trigger endpoints) and the scheduler's worker thread
\* each run passes, every pass in a session of its own on the one database. The
\* database isolates statements at READ COMMITTED: a session sees the committed rows
\* and its own writes, and a statement that touches a row another session wrote and
\* has not committed waits for that session to end.
Threads == {"loop", "sched"}
Other(w) == CHOOSE o \in Threads : o # w

\* the order in which a query returns the pages of a collection
PageOrder == <<"A", "B">>

NoPage == [parent |-> None, last_edited_time |-> NoTime]
NoWrites == [pages |-> <<>>, statuses |-> <<>>, tags |-> {}]
IdleSession ==
    [pc |-> "idle", database_id |-> None, results |-> <<>>, idx |-> 0,
     writes |-> NoWrites, waits |-> {}, inserts |-> {}, latest |-> FALSE,
     outcome |-> None]

\* what the query of collection dbid returns from the remote pages
Query(pages, dbid) ==
    LET ids == SelectSeq(PageOrder, LAMBDA p : pages[p].parent = dbid)
    IN  [i \in DOMAIN ids |->
            [id |-> ids[i], last_edited_time |-> <<pages[ids[i]].last_edited_time, "Z">>]]

\* the rows a session sees: the committed ones under its own writes
View(committed, writes) ==
    [pages |-> writes.pages @@ committed.pages,
     statuses |-> writes.statuses @@ committed.statuses,
     tags |-> committed.tags \cup writes.tags]

\* the uncommitted rows of a session whose view is `view`: what it wrote before and
\* every row of the view that the committed rows do not hold as it is
WritesOf(committed, old, view) ==
    [pages |->
        [p \in {q \in DOMAIN view.pages :
                    \/ q \in DOMAIN old.pages
                    \/ q \notin DOMAIN committed.pages
                    \/ committed.pages[q] # view.pages[q]} |-> view.pages[p]],
     statuses |->
        [a \in {b \in DOMAIN view.statuses :
                    \/ b \in DOMAIN old.statuses
                    \/ b \notin DOMAIN committed.statuses} |-> view.statuses[a]],
     tags |-> view.tags \ committed.tags]

\* the rows and unique-index entries a set of writes holds locked
Keys(writes) ==
    {<<"page", p>> : p \in DOMAIN writes.pages}
        \cup {<<"status", a>> : a \in DOMAIN writes.statuses}
        \cup {<<"status name", writes.statuses[a].name>> : a \in DOMAIN writes.statuses}
        \cup {<<"tag", t>> : t \in writes.tags}

\* those of them the committed rows do not hold: the writes that are INSERTs
InsertKeys(committed, writes) ==
    Keys(writes) \ Keys([pages |-> committed.pages, statuses |-> committed.statuses,
                         tags |-> committed.tags])

\* the session of thread w after statements that leave it the view `view`: they take
\* effect, or the first of them that meets a row locked by the other session waits
StepTo(w, view, pc2, idx2) ==
    LET nw == WritesOf(db, sess[w].writes, view)
        touched == Keys(nw) \ Keys(sess[w].writes)
        clash == touched \cap Keys(sess[Other(w)].writes)
    IN  IF clash = {}
        THEN [sess[w] EXCEPT !.writes = nw, !.pc = pc2, !.idx = idx2]
        ELSE [sess[w] EXCEPT !.pc = "blocked", !.waits = clash,
                             !.inserts = touched \cap InsertKeys(db, nw)]

\* the session of thread w after its pass ended
Ended(w, outcome) ==
    [sess[w] EXCEPT !.pc = "idle", !.writes = NoWrites, !.waits = {}, !.inserts = {},
                    !.outcome = outcome]

passRest == <<cfg, tx, pc, database_id, results, idx, created, updated, parsed,
              local_cover_path, cover_failed, parseCalls, coverCalls, last, repeat,
              ret, revalidated>>

InitSessions ==
    /\ notion = [p \in PageIds |-> NoPage]
    /\ sess = [w \in Threads |-> IdleSession]

\* a page is created in, edited in or moved to collection dbid
Edit(p, dbid) ==
    /\ notion[p].last_edited_time < MaxTime
    /\ notion' = [notion EXCEPT ![p] = [parent |-> dbid,
                                        last_edited_time |-> @.last_edited_time + 1]]
    /\ UNCHANGED <<sess, db, passRest>>

\* the fetch of a pass, before its session opens
SessionFetch(w, dbid) ==
    /\ sess[w].pc = "idle"
    /\ sess' = [sess EXCEPT
                  ![w] = [IdleSession EXCEPT !.pc = "fetched", !.database_id = dbid,
                                             !.results = Query(notion, dbid),
                                             !.latest = TRUE],
                  ![Other(w)].latest = sess[Other(w)].database_id # dbid /\ @]
    /\ UNCHANGED <<notion, db, passRest>>

\* _mark_missing_pages_deleted in the session of thread w
SessionReconcile(w) ==
    /\ sess[w].pc = "fetched"
    /\ sess' = [sess EXCEPT ![w] =
                  StepTo(w, MarkMissingPagesDeleted(View(db, sess[w].writes),
                                                    ComputeIncomingIds(sess[w].results),
                                                    sess[w].database_id),
                         "loop", 1)]
    /\ UNCHANGED <<notion, db, passRest>>

\* loop body, `continue` branch
SessionSkip(w) ==
    /\ sess[w].pc = "loop"
    /\ sess[w].idx <= Len(sess[w].results)
    /\ IsUnchanged(View(db, sess[w].writes), sess[w].results[sess[w].idx])
    /\ sess' = [sess EXCEPT ![w].idx = @ + 1]
    /\ UNCHANGED <<notion, db, passRest>>

\* what the loop body does in the session of thread w with a record of content c
SessionProcess(w, c) ==
    ProcessRecordIn(View(db, sess[w].writes),
                    ItemOf(sess[w].results[sess[w].idx], sess[w].database_id, c,
                           DefaultFields),
                    OkEnv)

\* the loop body runs to its end, or waits at a locked row
SessionUpsert(w, c) ==
    /\ sess[w].pc = "loop"
    /\ sess[w].idx <= Len(sess[w].results)
    /\ ~IsUnchanged(View(db, sess[w].writes), sess[w].results[sess[w].idx])
    /\ SessionProcess(w, c).raised = None
    /\ sess' = [sess EXCEPT ![w] =
                  StepTo(w, SessionProcess(w, c).session, "loop", sess[w].idx + 1)]
    /\ UNCHANGED <<notion, db, passRest>>

\* the loop body raises: session_scope rolls back
SessionUpsertRaises(w, c) ==
    /\ sess[w].pc = "loop"
    /\ sess[w].idx <= Len(sess[w].results)
    /\ ~IsUnchanged(View(db, sess[w].writes), sess[w].results[sess[w].idx])
    /\ SessionProcess(w, c).raised # None
    /\ sess' = [sess EXCEPT ![w] = Ended(w, SessionProcess(w, c).raised)]
    /\ UNCHANGED <<notion, db, passRest>>

\* the other session ended and the waiting statement goes on: an INSERT of a key
\* the other session committed violates the key and session_scope rolls back;
\* otherwise the statements run again on the rows as they now are
SessionResume(w) ==
    /\ sess[w].pc = "blocked"
    /\ sess[w].waits \cap Keys(sess[Other(w)].writes) = {}
    /\ sess' = [sess EXCEPT ![w] =
                  IF sess[w].inserts \cap Keys(db) # {}
                  THEN Ended(w, "IntegrityError")
                  ELSE [sess[w] EXCEPT
                          !.pc = IF sess[w].idx = 0 THEN "fetched" ELSE "loop",
                          !.waits = {}, !.inserts = {}]]
    /\ UNCHANGED <<notion, db, passRest>>

\* session_scope exit without an exception
SessionCommit(w) ==
    /\ sess[w].pc = "loop"
    /\ sess[w].idx > Len(sess[w].results)
    /\ db' = View(db, sess[w].writes)
    /\ sess' = [sess EXCEPT ![w] = Ended(w, "ok")]
    /\ UNCHANGED <<notion, passRest>>

\* ------------------------------------------------------------------ the read API
\* The name of the published status, "완료" (done), as the records of the model
\* spell it.
PUBLISHED == "done"

\* (project_database_id or "").replace("-", "").lower(), and the same expression of
\* the query on the stored database_id: the ids of the model have no hyphen and no
\* upper-case letter, an absent one becomes the empty string
Normalize(dbid) == IF dbid = None THEN "" ELSE dbid

\* crud.list_posts: the ids of the rows the query selects (inner join on the status)
ListPosts(s) ==
    {p \in DOMAIN s.pages :
        /\ ~s.pages[p].is_deleted
        /\ s.pages[p].status_id \in DOMAIN s.statuses
        /\ s.statuses[s.pages[p].status_id].name = PUBLISHED}

\* crud.get_post_by_id: the row or None
GetPostById(s, post_id) == IF post_id \in ListPosts(s) THEN post_id ELSE None

\* crud.list_projects
ListProjects(s, project_database_id) ==
    {p \in DOMAIN s.pages :
        /\ ~s.pages[p].is_deleted
        /\ Normalize(s.pages[p].database_id) = Normalize(project_database_id)}

\* (mutant) the lookup does not filter on the soft-deleted flag
GetProjectByIdAny(s, project_id) ==
    IF project_id \in DOMAIN s.pages THEN project_id ELSE None

\* crud.get_project_by_id: the row or None
GetProjectById(s, project_id) ==
    IF project_id \in DOMAIN s.pages /\ ~s.pages[project_id].is_deleted
    THEN project_id ELSE None

\* serial tells one request from the next (it alternates)
NoResponse ==
    [endpoint |-> None, id |-> None, status_code |-> 0, body |-> {}, serial |-> 0]
Response(endpoint, id, status_code, body) ==
    [endpoint |-> endpoint, id |-> id, status_code |-> status_code, body |-> body,
     serial |-> 1 - reply.serial]

InitRead == reply = NoResponse

\* GET /notion/posts: the cards of the listed rows (their order is left out)
GetPosts ==
    /\ reply' = Response("get_posts", None, 200, ListPosts(db))
    /\ UNCHANGED <<passVars, fetchVars, notifyVars, assetVars, threadVars, sessionVars>>

\* GET /notion/posts/{post_id}
GetPost(post_id) ==
    /\ reply' = IF GetPostById(db, post_id) = None
                THEN Response("get_post", post_id, 404, {})
                ELSE Response("get_post", post_id, 200, {GetPostById(db, post_id)})
    /\ UNCHANGED <<passVars, fetchVars, notifyVars, assetVars, threadVars, sessionVars>>

\* GET /notion/projects, with the value of NOTION_PROJECT_DATABASE_ID in the
\* environment; sorted() by the period of the property bag raises when it has to
\* compare a date that carries an offset with one that carries none
GetProjects(project_db_id, sort_raises) ==
    /\ sort_raises => (project_db_id # None
                          /\ Cardinality(ListProjects(db, project_db_id)) >= 2)
    /\ reply' = IF project_db_id = None \/ sort_raises
                THEN Response("get_projects", None, 500, {})
                ELSE Response("get_projects", None, 200,
                              ListProjects(db, project_db_id))
    /\ UNCHANGED <<passVars, fetchVars, notifyVars, assetVars, threadVars, sessionVars>>

\* GET /notion/projects/{project_id}
GetProject(project_id) ==
    /\ reply' = IF GetProjectById(db, project_id) = None
                THEN Response("get_project", project_id, 404, {})
                ELSE Response("get_project", project_id, 200,
                              {GetProjectById(db, project_id)})
    /\ UNCHANGED <<passVars, fetchVars, notifyVars, assetVars, threadVars, sessionVars>>

\* ------------------------------------------------------------------ specifications
\* Reconciliation: both collections, records with or without a status.
CoreContents ==
    {c \in Contents : c.cover = "none" /\ c.tags = <<>> /\ c.status.name \in {None, "done"}}
Init ==
    /\ InitOver({DefaultConfig}) /\ InitFetch /\ InitNotify /\ InitAsset /\ InitThreads
    /\ InitSessions /\ InitRead
Next == NextOver(DatabaseIds, Snapshots, CoreContents, {OkEnv})
Spec == Init /\ [][Next]_vars

\* Relations: one collection, records with statuses and tag lists.
RelationContents ==
    {c \in Contents : c.cover = "none" /\ c.status.name \in {None, "done"}
                      /\ c.tags \in {<<"T2">>, <<"T1", "T2">>}}
NextRelations == NextOver({POST_DATABASE_ID}, Snapshots, RelationContents, {OkEnv})
SpecRelations == Init /\ [][NextRelations]_vars

\* Covers: every configuration, snapshots of at most one record with every cover
\* kind, every outcome of the acquisition.
CoverContents ==
    {c \in Contents : c.tags = <<>> /\ c.status.name = "done"}
\* one configuration per behaviour of the pipeline: a CDN base is read only
\* with a bucket, and neither is read with downloads disabled
CoverConfigs ==
    {c \in Configs : /\ c.S3_PUBLIC_BASE_URL => c.S3_BUCKET
                     /\ c.S3_BUCKET => c.COVER_DOWNLOAD_ENABLED}
InitCover ==
    /\ InitOver(CoverConfigs) /\ InitFetch /\ InitNotify /\ InitAsset /\ InitThreads
    /\ InitSessions /\ InitRead
CoverSnapshots == {q \in Snapshots : Len(q) <= 1}
NextCover == NextOver({POST_DATABASE_ID}, CoverSnapshots, CoverContents, CoverEnvs)
SpecCover == InitCover /\ [][NextCover]_vars

\* The query: one collection, records without status, tags or cover; every page
\* size and every run of answers of the API.
FetchContents ==
    {c \in Contents : c.cover = "none" /\ c.tags = <<>> /\ c.status.name = None}
NextFetch ==
    \/ \E coll \in Snapshots, n \in PageSizes, codes \in ServedSeqs :
          QueryReturns(POST_DATABASE_ID, coll, n, codes)
          /\ UNCHANGED <<notifyVars, assetVars, threadVars, sessionVars, readVars>>
    \/ \E coll \in Snapshots, n \in PageSizes, codes \in ServedSeqs :
          QueryRaises(POST_DATABASE_ID, coll, n, codes)
          /\ UNCHANGED <<notifyVars, assetVars, threadVars, sessionVars, readVars>>
    \/ Reconcile /\ UNCHANGED others
    \/ SkipUnchanged /\ UNCHANGED others
    \/ \E c \in FetchContents : UpsertItem(c, OkEnv) /\ UNCHANGED others
    \/ Rollback /\ UNCHANGED others
    \/ Commit /\ UNCHANGED others
    \/ Return /\ UNCHANGED others
SpecFetch == Init /\ [][NextFetch]_vars

\* The webhook: every configuration of url and secret, every end of the POST.
InitWebhook ==
    /\ InitOver({DefaultConfig}) /\ InitFetch /\ InitNotifyOver(Webhooks)
    /\ InitAsset /\ InitThreads /\ InitSessions /\ InitRead
NextNotify ==
    \/ \E snap \in Snapshots :
          FetchNotified(POST_DATABASE_ID, snap) /\ UNCHANGED <<fetchVars, assetVars, threadVars, sessionVars, readVars>>
    \/ FetchFail(POST_DATABASE_ID) /\ UNCHANGED others
    \/ Reconcile /\ UNCHANGED others
    \/ SkipUnchanged /\ UNCHANGED others
    \/ \E c \in FetchContents : UpsertItem(c, OkEnv) /\ UNCHANGED others
    \/ Rollback /\ UNCHANGED others
    \/ Commit /\ UNCHANGED others
    \/ \E o \in PostOutcomes :
          ReturnNotified(o) /\ UNCHANGED <<fetchVars, assetVars, threadVars, sessionVars, readVars>>
SpecNotify == InitWebhook /\ [][NextNotify]_vars

\* The threads of the web process: the lifespan, the scheduler's job, the endpoints.
NextThreads ==
    \/ StartScheduler /\ UNCHANGED <<passVars, fetchVars, notifyVars, assetVars, sessionVars, readVars>>
    \/ Serve /\ UNCHANGED <<passVars, fetchVars, notifyVars, assetVars, sessionVars, readVars>>
    \/ Tick /\ UNCHANGED <<passVars, fetchVars, notifyVars, assetVars, sessionVars, readVars>>
    \/ \E endpoint \in Endpoints :
          Request(endpoint) /\ UNCHANGED <<passVars, fetchVars, notifyVars, assetVars, sessionVars, readVars>>
    \/ \E raises \in BOOLEAN :
          LoopStep(raises) /\ UNCHANGED <<passVars, fetchVars, notifyVars, assetVars, sessionVars, readVars>>
    \/ \E raises \in BOOLEAN :
          SchedStep(raises) /\ UNCHANGED <<passVars, fetchVars, notifyVars, assetVars, sessionVars, readVars>>
SpecThreads == Init /\ [][NextThreads]_vars

\* Dates: one collection, records whose date strings (written date, cover expiry,
\* created and last-edited timestamps) are absent, well formed or malformed.
DateContents ==
    {c \in Contents : c.status.id = None /\ c.tags = <<>> /\ c.cover \in {"none", "file"}}
DateFields ==
    {[DefaultFields EXCEPT !.written_date = w, !.expiry_time = x, !.created_time = t] :
        w \in {NoIso, <<1, "date">>, BadIso},
        x \in {NoIso, <<1, "Z">>, BadIso},
        t \in {<<1, "Z">>, BadIso}}
DateSnapshots ==
    UNION {{[i \in DOMAIN q |-> [id |-> q[i], last_edited_time |-> t[i]]] :
                t \in [DOMAIN q -> IsoTimes \cup {BadIso}]} : q \in IdSeqs}
NextDates ==
    \/ \E snap \in DateSnapshots : Fetch(POST_DATABASE_ID, snap) /\ UNCHANGED others
    \/ Reconcile /\ UNCHANGED others
    \/ SkipUnchanged /\ UNCHANGED others
    \/ \E c \in DateContents, f \in DateFields :
          UpsertRecord(ItemAt(idx, c, f), OkEnv) /\ UNCHANGED others
    \/ \E c \in DateContents, f \in DateFields :
          UpsertRecordRaises(ItemAt(idx, c, f), OkEnv) /\ UNCHANGED others
    \/ Commit /\ UNCHANGED others
    \/ Return /\ UNCHANGED others
SpecDates == Init /\ [][NextDates]_vars

\* Columns: both collections, snapshots of at most one record of one page, records
\* in four versions that differ in every mapped field (all absent, all empty, two
\* filled).
EmptyFields ==
    [DefaultFields EXCEPT !.title = "", !.slug = "", !.pin = "false",
                          !.archived = "false", !.in_trash = "false"]
FieldsOf(k) ==
    [title |-> (IF k = 1 THEN "title 1" ELSE "title 2"),
     slug |-> (IF k = 1 THEN "slug-1" ELSE "slug-2"),
     written_date |-> <<k, IF k = 1 THEN "date" ELSE "datetime">>,
     pin |-> (IF k = 1 THEN "true" ELSE "false"), properties |-> <<"properties", k>>, expiry_time |-> <<k, "Z">>,
     url |-> (IF k = 1 THEN "url 1" ELSE "url 2"),
     public_url |-> (IF k = 1 THEN "public url 1" ELSE "public url 2"),
     created_time |-> <<k, "Z">>,
     created_by |-> (IF k = 1 THEN "user 1" ELSE "user 2"),
     last_edited_by |-> (IF k = 1 THEN "user 2" ELSE "user 1"),
     archived |-> (IF k = 2 THEN "true" ELSE "false"),
     in_trash |-> (IF k = 1 THEN "true" ELSE "false")]
FieldVersions == {DefaultFields, EmptyFields, FieldsOf(1), FieldsOf(2)}
ColumnContents ==
    {c \in Contents : c.status.name \in {None, "done"} /\ c.status.id # "S2"
                      /\ c.tags \in {<<>>, <<"T1">>} /\ c.cover \in {"none", "file"}}
ColumnSnapshots == {q \in CoverSnapshots : \A i \in DOMAIN q : q[i].id = "A"}
NextColumns ==
    \/ \E d \in DatabaseIds, snap \in ColumnSnapshots : Fetch(d, snap) /\ UNCHANGED others
    \/ Reconcile /\ UNCHANGED others
    \/ SkipUnchanged /\ UNCHANGED others
    \/ \E c \in ColumnContents, f \in FieldVersions :
          UpsertRecord(ItemAt(idx, c, f), OkEnv) /\ UNCHANGED others
    \/ Commit /\ UNCHANGED others
    \/ Return /\ UNCHANGED others
SpecColumns == Init /\ [][NextColumns]_vars

\* Tags: one collection, snapshots of at most one record, records whose merged tag
\* list names a tag once, twice in a row, or twice with another tag between.
DuplicateTagLists == {<<"T1", "T1">>, <<"T1", "T2", "T1">>}
TagContents ==
    {[status |-> [id |-> None, name |-> None, color |-> None], tags |-> t,
      cover |-> "none"] : t \in TagLists \cup DuplicateTagLists}
NextTags ==
    \/ \E snap \in CoverSnapshots : Fetch(POST_DATABASE_ID, snap) /\ UNCHANGED others
    \/ Reconcile /\ UNCHANGED others
    \/ SkipUnchanged /\ UNCHANGED others
    \/ \E c \in TagContents : UpsertItem(c, OkEnv) /\ UNCHANGED others
    \/ \E c \in TagContents : UpsertItemRaises(c, OkEnv) /\ UNCHANGED others
    \/ Commit /\ UNCHANGED others
    \/ Return /\ UNCHANGED others
SpecTags == Init /\ [][NextTags]_vars

\* Two threads at once: passes over both collections, a page of each created and
\* edited, their records tagged alike, with or without a status.
SessionPages == {<<"A", POST_DATABASE_ID>>, <<"B", PROJECT_DATABASE_ID>>}
SessionContents ==
    {c \in Contents : c.cover = "none" /\ c.tags = <<"T1">>
                      /\ c.status.name \in {None, "done"}}
sessionOthers == <<fetchVars, notifyVars, assetVars, threadVars, readVars>>
NextSessions ==
    \/ \E p \in SessionPages : Edit(p[1], p[2]) /\ UNCHANGED sessionOthers
    \/ \E w \in Threads, dbid \in DatabaseIds : SessionFetch(w, dbid) /\ UNCHANGED sessionOthers
    \/ \E w \in Threads : SessionReconcile(w) /\ UNCHANGED sessionOthers
    \/ \E w \in Threads : SessionSkip(w) /\ UNCHANGED sessionOthers
    \/ \E w \in Threads, c \in SessionContents : SessionUpsert(w, c) /\ UNCHANGED sessionOthers
    \/ \E w \in Threads, c \in SessionContents :
          SessionUpsertRaises(w, c) /\ UNCHANGED sessionOthers
    \/ \E w \in Threads : SessionResume(w) /\ UNCHANGED sessionOthers
    \/ \E w \in Threads : SessionCommit(w) /\ UNCHANGED sessionOthers
SpecSessions == Init /\ [][NextSessions]_vars

\* Empty fetches: one collection, snapshots with records, without any, and with a
\* record that has no id.
IdlessSnapshots == {<<[id |-> None, last_edited_time |-> <<1, "Z">>]>>}
EmptyContents ==
    {c \in Contents : c.cover = "none" /\ c.tags = <<>> /\ c.status.name = None}
NextEmpty ==
    \/ \E snap \in Snapshots \cup IdlessSnapshots :
          Fetch(POST_DATABASE_ID, snap) /\ UNCHANGED others
    \/ Reconcile /\ UNCHANGED others
    \/ SkipUnchanged /\ UNCHANGED others
    \/ \E c \in EmptyContents : UpsertItem(c, OkEnv) /\ UNCHANGED others
    \/ \E c \in EmptyContents : UpsertItemRaises(c, OkEnv) /\ UNCHANGED others
    \/ Commit /\ UNCHANGED others
    \/ Return /\ UNCHANGED others
SpecEmpty == Init /\ [][NextEmpty]_vars

\* Reads: passes over both collections, pages that are created and that disappear,
\* their records with a published status, another one or none, and the four read
\* requests at any moment.
ReadContents ==
    {c \in Contents : c.cover = "none" /\ c.tags = <<>>
                      /\ c.status \in {[id |-> None, name |-> None, color |-> None],
                                        [id |-> "S1", name |-> "done", color |-> "green"],
                                        [id |-> "S2", name |-> "draft", color |-> "gray"]}}
ReadSnapshots ==
    {q \in Snapshots : \A i \in DOMAIN q : q[i].last_edited_time = <<1, "Z">>}
NextRead ==
    \/ \E d \in DatabaseIds, snap \in ReadSnapshots : Fetch(d, snap) /\ UNCHANGED others
    \/ Reconcile /\ UNCHANGED others
    \/ SkipUnchanged /\ UNCHANGED others
    \/ \E c \in ReadContents : UpsertItem(c, OkEnv) /\ UNCHANGED others
    \/ Commit /\ UNCHANGED others
    \/ Return /\ UNCHANGED others
    \/ GetPosts
    \/ \E post_id \in PageIds : GetPost(post_id)
    \/ \E project_db_id \in {None, PROJECT_DATABASE_ID}, sort_raises \in BOOLEAN :
          GetProjects(project_db_id, sort_raises)
    \/ \E project_id \in PageIds : GetProject(project_id)
SpecRead == Init /\ [][NextRead]_vars

\* Statuses: one collection, records carrying every status option, among them one
\* id under two names and under two colors.
StatusContents == {c \in Contents : c.cover = "none" /\ c.tags = <<>>}
NextStatus == NextOver({POST_DATABASE_ID}, Snapshots, StatusContents, {OkEnv})
SpecStatus == Init /\ [][NextStatus]_vars

\* One cover acquisition step by step, inside passes over one page whose cover
\* is an uploaded file and whose last_edited_time stays the same (the page is
\* processed by the first pass that finds it): every source, every storage
\* configuration.
AssetContents ==
    {c \in Contents : c.cover = "file" /\ c.tags = <<>> /\ c.status.name = None}
AssetConfigs == {c \in CoverConfigs : c.COVER_DOWNLOAD_ENABLED}
AssetPage == CHOOSE p \in PageIds : TRUE
AssetSnapshots ==
    {q \in CoverSnapshots :
        \A i \in DOMAIN q : q[i].id = AssetPage /\ IsoToDt(q[i].last_edited_time) = 1}
InitAssets ==
    /\ InitOver(AssetConfigs) /\ InitFetch /\ InitNotify /\ InitAsset /\ InitThreads
    /\ InitSessions /\ InitRead
NextAsset ==
    \/ \E snap \in AssetSnapshots : Fetch(POST_DATABASE_ID, snap) /\ UNCHANGED others
    \/ Reconcile /\ UNCHANGED others
    \/ SkipUnchanged /\ UNCHANGED others
    \/ \E s \in Sources :
          StartDownload(s) /\ UNCHANGED <<passVars, fetchVars, notifyVars, threadVars, sessionVars, readVars>>
    \/ \E n \in 1..DOWNLOAD_CHUNK_SIZE :
          ReceiveChunk(n) /\ UNCHANGED <<passVars, fetchVars, notifyVars, threadVars, sessionVars, readVars>>
    \/ StreamError /\ UNCHANGED <<passVars, fetchVars, notifyVars, threadVars, sessionVars, readVars>>
    \/ EndOfStream /\ UNCHANGED <<passVars, fetchVars, notifyVars, threadVars, sessionVars, readVars>>
    \/ Validate /\ UNCHANGED <<passVars, fetchVars, notifyVars, threadVars, sessionVars, readVars>>
    \/ \E save_ok \in BOOLEAN :
          Process(save_ok) /\ UNCHANGED <<passVars, fetchVars, notifyVars, threadVars, sessionVars, readVars>>
    \/ \E o \in StoreOutcomes :
          Store(o.upload, o.local) /\ UNCHANGED <<passVars, fetchVars, notifyVars, threadVars, sessionVars, readVars>>
    \/ \E c \in AssetContents :
          UpsertCovered(c) /\ UNCHANGED <<fetchVars, notifyVars, threadVars, sessionVars, readVars>>
    \/ Commit /\ UNCHANGED others
    \/ Return /\ UNCHANGED others
SpecAsset == InitAssets /\ [][NextAsset]_vars

\* ------------------------------------------------------------------ properties
SnapshotIds == {results[i].id : i \in DOMAIN results}
Stored(s, p) == p \in DOMAIN s.pages
Deleted(s, p) == Stored(s, p) /\ s.pages[p].is_deleted
InScope == pc \in {"loop", "committed"}

\* C1 Idempotence: a pass that re-syncs the collection of the pass that has just
\* committed, with the identical snapshot, creates and updates nothing, calls
\* neither the extractor nor the cover pipeline and leaves every row as it is.
C1_Idempotent ==
    (InScope /\ repeat) =>
        /\ created = 0 /\ updated = 0
        /\ parseCalls = 0 /\ coverCalls = 0
        /\ tx = db
C1_Witness ==
    /\ pc = "committed" /\ repeat /\ Len(results) = 2
    /\ \E p \in DOMAIN db.pages : db.pages[p].status_id # None

\* C2 Transactional atomicity: when a pass ends by an exception raised inside its
\* transaction, the exception is propagated and the committed rows (pages with
\* their flags, statuses, tags, associations) are those from before the pass; rows
\* are committed by no step but the commit.
C2_Atomic ==
    [][ /\ (pc \in {"fetched", "loop"} /\ pc' = "idle") =>
              (ret'.outcome \in Errors /\ db' = db /\ tx' = db)
        /\ (db' # db) => (pc = "loop" /\ pc' = "committed" /\ db' = tx) ]_vars
C2_Witness ==
    /\ pc = "idle" /\ ret.outcome = "IntegrityError"
    /\ ret.created + ret.updated > 0
    /\ db.pages # <<>>

\* C3 (as stated) Soft-delete of missing pages: once the pass has reconciled,
\* every stored page of its collection whose id is absent from the snapshot is
\* flagged soft-deleted, for every snapshot.
C3_MissingDeleted ==
    pc = "committed" =>
        \A p \in DOMAIN db.pages :
            (db.pages[p].database_id = database_id /\ p \notin SnapshotIds)
                => db.pages[p].is_deleted
\* C3 (amended) the same for every snapshot that holds at least one record, in
\* the session from the reconciliation on and in the committed rows.
C3_MissingDeletedNonEmpty ==
    /\ (InScope /\ results # <<>>) =>
        \A p \in DOMAIN tx.pages :
            (tx.pages[p].database_id = database_id /\ p \notin SnapshotIds)
                => tx.pages[p].is_deleted
    /\ (pc = "committed" /\ results # <<>>) =>
        \A p \in DOMAIN db.pages :
            (db.pages[p].database_id = database_id /\ p \notin SnapshotIds)
                => db.pages[p].is_deleted
C3_Witness ==
    /\ pc = "committed" /\ results # <<>>
    /\ \E p \in DOMAIN db.pages :
          /\ db.pages[p].database_id = database_id
          /\ p \notin SnapshotIds
          /\ db.pages[p].is_deleted

\* C4 (as stated) Re-appearance clears the flag: after a committed pass every
\* page of its snapshot is stored, and none of them that is stored under the
\* collection of the pass is flagged soft-deleted.
C4_ReappearanceClears ==
    pc = "committed" =>
        \A p \in SnapshotIds :
            /\ Stored(db, p)
            /\ db.pages[p].database_id = database_id => ~db.pages[p].is_deleted

\* C5 Deletion scoping: inside a transaction the flag of a page turns true only
\* in the reconciliation step and only on a page stored under the collection
\* of the pass; that step leaves the rows of every other collection alone.
C5_Scoped ==
    [][ pc' = "loop" =>
          \A p \in DOMAIN tx'.pages :
              /\ (tx'.pages[p].is_deleted /\ ~Deleted(tx, p)) =>
                    /\ pc = "fetched"
                    /\ Stored(db, p)
                    /\ db.pages[p].database_id = database_id
              /\ (pc = "fetched" /\ Stored(db, p)
                    /\ db.pages[p].database_id # database_id) =>
                    tx'.pages[p] = db.pages[p] ]_vars
C5_Witness ==
    /\ pc = "loop" /\ idx = 1 /\ results # <<>>
    /\ database_id = POST_DATABASE_ID
    /\ \E q \in DOMAIN tx.pages :
          /\ q \notin SnapshotIds
          /\ tx.pages[q].database_id = PROJECT_DATABASE_ID
          /\ ~tx.pages[q].is_deleted

\* C6 Tag replacement: once a record is upserted, the tags of its page are
\* exactly the tag ids the record carries, and no tag row is removed.
C6_TagsReplaced ==
    (InScope /\ parsed.id # None) =>
        /\ Stored(tx, parsed.id)
        /\ Range(tx.pages[parsed.id].tags) = Range(parsed.tags_prop) \ {None}
        /\ db.tags \subseteq tx.tags
C6_Witness ==
    /\ pc = "loop" /\ parsed.id # None
    /\ Stored(db, parsed.id)
    /\ Range(db.pages[parsed.id].tags) = {"T1", "T2"}
    /\ parsed.tags_prop = <<"T2">>
    /\ tx.pages[parsed.id].tags = <<"T2">>
    /\ "T1" \in tx.tags

\* C7 (as stated) Cover URL is never the signed source URL: every committed
\* cover URL is absent or a reference made by the storing step.
StoredKinds == {"s3", "cdn", "local"}
C7_NeverSigned ==
    \A p \in DOMAIN db.pages :
        \/ db.pages[p].cover_url = NoUrl
        \/ db.pages[p].cover_url[1] \in StoredKinds

\* C8 Unchanged pages are skipped: the loop passes over a record whose id is
\* stored with the record's last_edited_time without extraction, without a call
\* of the cover pipeline and without a write.
C8_UnchangedSkipped ==
    [][ (/\ pc = "loop" /\ pc' = "loop"
         /\ idx <= Len(results)
         /\ Stored(tx, results[idx].id)
         /\ tx.pages[results[idx].id].last_edited_time = results[idx].last_edited_time[1])
        => /\ tx' = tx
           /\ parseCalls' = parseCalls /\ coverCalls' = coverCalls
           /\ created' = created /\ updated' = updated
           /\ idx' = idx + 1 ]_vars
C8_Witness ==
    /\ pc = "loop" /\ idx = 3
    /\ parseCalls = 1 /\ coverCalls = 1
    /\ Stored(db, results[2].id)
    /\ db.pages[results[2].id].last_edited_time = results[2].last_edited_time[1]

\* C9 Pass counts: created counts the processed records whose id was not stored
\* before the pass, updated those stored with another last_edited_time, and a
\* committed pass returns them with total = the size of the snapshot.
Processed == {i \in DOMAIN results : i < idx}
C9_Counts ==
    /\ InScope =>
        /\ created = Cardinality({i \in Processed : ~Stored(db, results[i].id)})
           \/ pc = "committed"
        /\ updated = Cardinality({i \in Processed :
                        /\ Stored(db, results[i].id)
                        /\ db.pages[results[i].id].last_edited_time
                              # results[i].last_edited_time[1]})
           \/ pc = "committed"
        /\ created + updated <= Len(results)
    /\ ret.outcome = "ok" =>
        /\ ret.total = Len(last.results)
        /\ ret.created + ret.updated <= ret.total
C9_Witness ==
    /\ pc = "idle"
    /\ ret = [outcome |-> "ok", created |-> 1, updated |-> 0, total |-> 2]
    /\ last.database_id = POST_DATABASE_ID

\* C10 Cover failures never abort a pass: no pass ends by an exception of the
\* cover pipeline, and after an acquisition with a failed stage the record is
\* upserted and counted, with a stored reference or no cover from the pipeline.
C10_CoverNeverAborts ==
    /\ ret.outcome # "CoverError"
    /\ (pc = "loop" /\ cover_failed) =>
        /\ Stored(tx, parsed.id)
        /\ tx.pages[parsed.id].last_edited_time = parsed.last_edited_time[1]
        /\ ~tx.pages[parsed.id].is_deleted
        /\ created + updated = coverCalls
        /\ coverCalls >= 1
        /\ local_cover_path = NoUrl \/ local_cover_path[1] \in StoredKinds
C10_Witness ==
    /\ pc = "loop" /\ cover_failed /\ cfg.S3_BUCKET
    /\ local_cover_path = NoUrl
    /\ created = 1

\* C11 (as stated) Size-bound enforcement: a download rejected for its declared
\* Content-Length has stored no byte of the body, and the pass that commits after
\* it has counted the page and stored it without a cover URL.
C11_SizeBound ==
    /\ acq.reason = "content_length" => acq.written = 0
    /\ (pc = "committed" /\ coverCalls = 1 /\ acq.reason = "content_length") =>
          /\ created + updated = 1
          /\ db.pages[AssetPage].cover_url = NoUrl

\* C12 (as stated) Storage fallback: with a bucket configured, an acquisition whose
\* upload raised returns the local static path of the page and the processed
\* asset is the file under that name.
C12_StorageFallback ==
    (acq.stage = "done" /\ cfg.S3_BUCKET /\ acq.env.upload # "ok") =>
        /\ acq.ret = <<"local", acq.page_id>>
        /\ acq.page_id \in DOMAIN static_dir
        /\ static_dir[acq.page_id] = acq.processed

\* C12 (amended) Storage fallback: with a bucket configured, an acquisition whose
\* upload raised returns the local static path of the page, with the processed
\* asset as the file under that name, when the local write succeeds, and returns
\* no cover when the local write fails too; in both cases no exception leaves
\* the pipeline.
C12_StorageFallbackWhenWritable ==
    (acq.stage = "done" /\ cfg.S3_BUCKET /\ acq.env.upload # "ok") =>
        /\ acq.env.local =>
              /\ acq.ret = <<"local", acq.page_id>>
              /\ acq.page_id \in DOMAIN static_dir
              /\ static_dir[acq.page_id] = acq.processed
        /\ ~acq.env.local => acq.ret = NoUrl
        /\ DownloadCoverIfAvailable(SignedUrl(acq.page_id), acq.page_id, acq.env)
              = [raised |-> FALSE, url |-> acq.ret]
C12_Witness ==
    /\ acq.stage = "done" /\ cfg.S3_BUCKET /\ acq.env.upload = "client_error"
    /\ acq.ret = <<"local", acq.page_id>>
    /\ acq.processed.kind = "reenc"
    /\ tempdir = {}

\* C13 Fetch failure aborts cleanly: a pass whose collection query is answered with
\* an error status ends at once by raising, with every committed row (pages and
\* their flags, statuses, tags, associations) and the session left as they were.
C13_FetchFailureAborts ==
    [][ (pc = "idle" /\ served' # <<>> /\ RaisesForStatus(served'[1])) =>
            /\ pc' = "idle"
            /\ ret'.outcome = "HTTPError"
            /\ db' = db
            /\ tx' = tx ]_vars
C13_Witness ==
    /\ pc = "idle" /\ ret.outcome = "HTTPError"
    /\ served # <<>> /\ RaisesForStatus(served[1])
    /\ Len(remote) = 2
    /\ \E p \in DOMAIN db.pages : ~db.pages[p].is_deleted

\* C14 (as stated) Single-flight per collection: while the application serves, the
\* event-loop thread and the scheduler's thread never run a pass over the same
\* collection at the same time.
C14_SingleFlight ==
    (lifespan = "serving" /\ Running(loop_task) /\ Running(sched_task)) =>
        Head(loop_task.todo) # Head(sched_task.todo)

\* C15 Revalidation timing: _post_revalidate is called for a pass, once, exactly in
\* the step that ends a pass whose transaction has committed with created + updated
\* > 0; nothing is posted while a pass is running, nor by a pass that raised, nor by
\* a committed pass that changed nothing.
C15_RevalidationTiming ==
    [][ /\ pc # "idle" => revalidated = <<>>
        /\ revalidated' # <<>> =>
              /\ pc = "committed" /\ pc' = "idle"
              /\ db = tx /\ db' = db
              /\ created + updated > 0
              /\ ret'.outcome = "ok"
              /\ Len(revalidated') = 1
        /\ (pc = "committed" /\ pc' = "idle" /\ created + updated > 0) =>
              revalidated' # <<>> ]_vars
C15_Witness ==
    /\ pc = "idle" /\ revalidated # <<>>
    /\ ret.outcome = "ok" /\ ret.updated > 0 /\ ret.created = 0

\* C16 Notifier is best-effort: the step that ends a committed pass returns the
\* counts of the pass and leaves the committed rows alone whatever the end of the
\* POST; the call never raises, and it sends no request when the url or the secret
\* is not configured.
C16_NotifierBestEffort ==
    [][ (pc = "committed" /\ pc' = "idle") =>
            /\ ret' = [outcome |-> "ok", created |-> created, updated |-> updated,
                       total |-> Len(results)]
            /\ db' = db
            /\ ~posted'.raised
            /\ (~webhook.REVALIDATE_URL \/ ~webhook.WEBHOOK_SECRET) =>
                    posted'.requests = 0 ]_vars
C16_Witness ==
    /\ pc = "idle" /\ ret.outcome = "ok" /\ ret.created > 0
    /\ posted.requests = 1 /\ posted.result \in {"failed", "error"}
    /\ DOMAIN db.pages # {}

\* C17 (as stated) Fetch completeness: the snapshot a committed pass worked on holds
\* every record of the collection, so total is the collection's size.
C17_FetchComplete ==
    pc = "committed" =>
        /\ Len(results) = Len(remote)
        /\ \A i \in DOMAIN remote : remote[i].id \in SnapshotIds

\* C18 (as stated) Fetch retry budget: a pass fails on its query only when the
\* answer to its last attempt is not retryable (a 4xx other than 429) or when 3
\* attempts were made; a 429 or 5xx followed by a 200 within the budget succeeds.
C18_RetryBudget ==
    (pc = "idle" /\ ret.outcome = "HTTPError" /\ served # <<>>) =>
        \/ attempts = 3
        \/ served[attempts] \notin {429, 503}

\* the object the finished acquisition has put into the store it used
StoredObject ==
    IF acq.ret[1] = "local" THEN static_dir[acq.page_id] ELSE bucket[acq.page_id]

\* C19 Passthrough vs. re-encode: the object an acquisition has stored is the
\* downloaded file itself when its size is within the soft ceiling and its longer
\* edge within the maximum; otherwise it is a re-encoding whose longer edge is
\* within the maximum and whose edges keep the proportions of the source to less
\* than a pixel.
C19_PassthroughOrReencode ==
    (acq.stage = "done" /\ acq.ret # NoUrl) =>
        LET obj == StoredObject
            dims == acq.src.dims
        IN  IF acq.written <= COVER_SOFT_MAX_BYTES /\ LongEdge(dims) <= COVER_MAX_DIM
            THEN obj = [kind |-> "orig", bytes |-> acq.src.body, dims |-> dims]
            ELSE /\ obj.kind = "reenc"
                 /\ LongEdge(obj.dims) <= COVER_MAX_DIM
                 /\ Abs(obj.dims[1] * dims[2] - obj.dims[2] * dims[1]) < LongEdge(dims)
C19_Witness ==
    /\ acq.stage = "done" /\ acq.ret # NoUrl
    /\ StoredObject.kind = "reenc"
    /\ acq.written <= COVER_SOFT_MAX_BYTES
    /\ LongEdge(acq.src.dims) > COVER_MAX_DIM
    /\ acq.src.dims[1] # acq.src.dims[2]

\* C20 (as stated) Temporary resources are released: when no acquisition is under
\* way, no temporary file exists.
C20_TempsReleased ==
    acq.stage \in {"idle", "done"} => tempdir = {}

\* C21 Ordering inside a pass: the reconciliation is the first step of the
\* transaction, taken before any record of the pass is extracted or upserted; each
\* later step of the loop handles the record at the loop position, writes no other
\* page and moves the position on by one.
C21_Ordering ==
    [][ /\ (pc = "fetched" /\ pc' = "loop") =>
              /\ parseCalls = 0 /\ created = 0 /\ updated = 0
              /\ tx = db
              /\ idx' = 1
        /\ (pc = "loop" /\ pc' = "loop") =>
              /\ idx <= Len(results)
              /\ idx' = idx + 1
              /\ \A q \in DOMAIN tx'.pages \ {results[idx].id} :
                    q \in DOMAIN tx.pages /\ tx'.pages[q] = tx.pages[q]
              /\ tx' # tx => parsed'.id = results[idx].id ]_vars
C21_Witness ==
    /\ pc = "loop" /\ idx = 3 /\ parseCalls = 2
    /\ results[1].id = "B" /\ results[2].id = "A"
    /\ parsed.id = "A"
    /\ \E p \in DOMAIN db.pages : db.pages[p].database_id = database_id

\* C28 (as stated) Revalidation tag: the tag a pass posts is the name of the
\* collection it synced: "posts" after a posts pass, "projects" after a projects pass.
C28_TagOfCollection ==
    (pc = "idle" /\ revalidated # <<>>) =>
        revalidated = <<IF last.database_id = POST_DATABASE_ID THEN "posts" ELSE "projects">>

\* C29 Cover pipeline stages: an acquisition moves only from downloading to
\* validating (the whole body received, within the hard ceiling), from validating to
\* processing (an image by Content-Type or by Pillow), from processing to storing (a
\* processed file exists) and ends with a URL only from storing, with the processed
\* asset in the store the URL names; every other end returns no cover.
C29_Stages ==
    [][ acq'.stage # acq.stage =>
          /\ <<acq.stage, acq'.stage>> \in
                {<<"idle", "downloading">>, <<"downloading", "validating">>,
                 <<"validating", "processing">>, <<"processing", "storing">>,
                 <<"idle", "done">>, <<"downloading", "done">>, <<"validating", "done">>,
                 <<"processing", "done">>, <<"storing", "done">>, <<"done", "idle">>}
          /\ acq'.stage = "validating" =>
                acq.written = acq.src.body /\ acq.written <= COVER_HARD_MAX_BYTES
          /\ acq'.stage = "processing" =>
                acq.src.ctype = "image" \/ acq.src.dims # NoDims
          /\ acq'.stage = "storing" =>
                acq'.processed # NoContent /\ acq'.processed_path \in tempdir'
          /\ (acq'.stage = "done" /\ acq'.ret # NoUrl) =>
                /\ acq.stage = "storing"
                /\ \/ /\ acq'.ret[1] \in {"s3", "cdn"}
                      /\ cfg.S3_BUCKET /\ acq'.env.upload = "ok"
                      /\ bucket'[acq.page_id] = acq.processed
                   \/ /\ acq'.ret[1] = "local"
                      /\ cfg.S3_BUCKET => acq'.env.upload # "ok"
                      /\ static_dir'[acq.page_id] = acq.processed
          /\ (acq'.stage = "done" /\ acq.stage # "storing") => acq'.ret = NoUrl ]_vars
C29_Witness ==
    /\ acq.stage = "done" /\ acq.ret = <<"local", acq.page_id>>
    /\ cfg.S3_BUCKET /\ acq.env.upload = "error"
    /\ acq.src.ctype = "other"
    /\ acq.written = COVER_HARD_MAX_BYTES

\* C30 Hard byte ceiling while streaming: the bytes written to the temporary file
\* never exceed the hard ceiling; the chunk that takes the received total over the
\* ceiling is not written, the download ends there, its temporary file is removed
\* and no cover is returned.
C30_HardCeiling ==
    /\ acq.written <= COVER_HARD_MAX_BYTES
    /\ acq.total > COVER_HARD_MAX_BYTES =>
          /\ acq.stage = "done" /\ acq.reason = "stream_limit"
          /\ acq.ret = NoUrl
          /\ TmpPath(acq.page_id) \notin tempdir
C30_Witness ==
    /\ acq.stage = "done" /\ acq.reason = "stream_limit"
    /\ acq.written = COVER_HARD_MAX_BYTES - 1
    /\ acq.total = COVER_HARD_MAX_BYTES + 1

\* C24 Status rows are create-once: the upsert of a record that names a status
\* leaves a row with that id in the session, made from the record when there was
\* none; a row that exists keeps its name and its color in every step of a
\* transaction, and a committed row is never removed or changed.
C24_StatusCreateOnce ==
    [][ /\ \A i \in DOMAIN db.statuses :
              i \in DOMAIN db'.statuses /\ db'.statuses[i] = db.statuses[i]
        /\ \A i \in DOMAIN tx.statuses :
              i \in DOMAIN tx'.statuses => tx'.statuses[i] = tx.statuses[i]
        /\ (pc = "loop" /\ pc' = "loop" /\ parseCalls' # parseCalls
              /\ parsed'.status_prop.id # None) =>
              LET i == parsed'.status_prop.id
              IN  /\ i \in DOMAIN tx'.statuses
                  /\ i \notin DOMAIN tx.statuses =>
                        tx'.statuses[i] = [name |-> parsed'.status_prop.name,
                                           color |-> parsed'.status_prop.color] ]_vars
C24_Witness ==
    /\ pc = "committed" /\ updated = 1
    /\ parsed.status_prop = [id |-> "S2", name |-> "done", color |-> "green"]
    /\ db.statuses = ("S2" :> [name |-> "draft", color |-> "red"])

\* C22 (as stated) Date parsing fails soft: no pass ends by the exception of a date
\* string that cannot be parsed, and the row of a record upserted with such a
\* string has the field absent.
C22_DatesFailSoft ==
    /\ ret.outcome # "ValueError"
    /\ (InScope /\ parsed.id # None) =>
          LET row == tx.pages[parsed.id]
          IN  /\ parsed.written_date = BadIso => row.written_date = NoTime
              /\ parsed.cover_expiry_time = BadIso => row.cover_expiry_time = NoTime
              /\ parsed.created_time = BadIso => row.created_time = NoTime
              /\ parsed.last_edited_time = BadIso => row.last_edited_time = NoTime

\* C25 Full replace except identity: the upsert of a record leaves in its row, for
\* every mapped column, the value derived from the record (texts, flags read by
\* bool(), parsed timestamps, the date of the written date, the status reference,
\* the property bag, the cover), whatever the row held before, while the owning
\* collection of a row that existed is kept and that of a new row is the parent
\* collection of the record.
C25_FullReplace ==
    [][ (pc = "loop" /\ pc' = "loop" /\ tx' # tx) =>
          LET p == results[idx].id
              row == tx'.pages[p]
              rec == parsed'
          IN  /\ rec.id = p
              /\ row.title = rec.title /\ row.slug = rec.slug
              /\ row.url = rec.item_url /\ row.public_url = rec.public_url
              /\ row.created_by_user_id = rec.created_by_id
              /\ row.last_edited_by_user_id = rec.last_edited_by_id
              /\ row.archived = (rec.archived = "true")
              /\ row.in_trash = (rec.in_trash = "true")
              /\ row.pin = (rec.pin = "true")
              /\ row.created_time = rec.created_time[1]
              /\ row.last_edited_time = results[idx].last_edited_time[1]
              /\ row.written_date =
                    (IF rec.written_date = NoIso THEN NoTime ELSE rec.written_date[1])
              /\ row.cover_expiry_time =
                    (IF rec.cover_expiry_time = NoIso THEN NoTime
                     ELSE rec.cover_expiry_time[1])
              /\ row.cover_url =
                    (IF local_cover_path' # NoUrl THEN local_cover_path' ELSE rec.cover_url)
              /\ row.status_id = rec.status_prop.id
              /\ row.raw_properties = rec.props
              /\ row.tags = rec.tags_prop
              /\ ~row.is_deleted
              /\ row.database_id =
                    (IF p \in DOMAIN tx.pages THEN tx.pages[p].database_id
                     ELSE rec.database_id) ]_vars
C25_Witness ==
    /\ pc = "loop" /\ parsed.id # None
    /\ Stored(db, parsed.id)
    /\ db.pages[parsed.id].database_id # database_id
    /\ tx.pages[parsed.id].database_id # database_id
    /\ db.pages[parsed.id].title = "title 1"
    /\ db.pages[parsed.id].tags = <<"T1">>
    /\ db.pages[parsed.id].status_id = "S1"
    /\ tx.pages[parsed.id].title = None
    /\ tx.pages[parsed.id].tags = <<>>
    /\ tx.pages[parsed.id].status_id = None

\* C23 (as stated) Duplicate tag ids are harmless: no pass ends by an integrity
\* error of the association rows, and the page of an upserted record is associated
\* once with each tag id of the record's list, as for the list without duplicates.
C23_DuplicatesHarmless ==
    /\ ret.outcome # "IntegrityError"
    /\ (InScope /\ parsed.id # None) =>
          /\ tx.pages[parsed.id].tags = Distinct(parsed.tags_prop)
          /\ Range(parsed.tags_prop) \subseteq tx.tags

\* C26: a pass over one collection never meets a row that a concurrent pass over the
\* other collection wrote: while both run, no statement of one waits for the other to
\* end (their rows are disjoint, so neither can fail on a row of the other)
C26_DisjointRows ==
    \A w \in Threads :
        (sess[w].pc = "blocked" /\ sess[w].waits \cap Keys(sess[Other(w)].writes) # {})
            => sess[Other(w)].database_id = sess[w].database_id

\* C27: last fetched wins: no commit replaces the stored last_edited_time of a page by
\* an older one, and once both threads are idle every page of the snapshot that was
\* fetched last for its collection, by a pass that committed, is stored with that
\* snapshot's last_edited_time
C27_LastFetchedWins ==
    [][/\ \A p \in DOMAIN db.pages :
              /\ p \in DOMAIN db'.pages
              /\ db'.pages[p].last_edited_time >= db.pages[p].last_edited_time
       /\ (\A w \in Threads : sess'[w].pc = "idle") =>
              \A w \in Threads :
                  (sess'[w].latest /\ sess'[w].outcome = "ok") =>
                      \A i \in DOMAIN sess'[w].results :
                          /\ sess'[w].results[i].id \in DOMAIN db'.pages
                          /\ db'.pages[sess'[w].results[i].id].last_edited_time
                                = IsoToDt(sess'[w].results[i].last_edited_time)]_vars

\* C31 Scheduler tick isolation: a tick starts the scheduler thread's task with the
\* posts pass first and the projects pass second; each step of the task either stays
\* in the running pass or, the pass having ended (returned or raised), goes on to
\* the rest of the list, so the projects pass starts only after the posts pass ended
\* and also when that raised; after the last pass the thread is idle again, ready
\* for the next tick.
C31_TickIsolation ==
    [][/\ (~Running(sched_task) /\ Running(sched_task')) =>
              sched_task' = Task("tick", <<POST_DATABASE_ID, PROJECT_DATABASE_ID>>)
       /\ (Running(sched_task) /\ sched_task' # sched_task) =>
              /\ \/ sched_task'.todo = sched_task.todo
                 \/ /\ sched_task'.todo = Tail(sched_task.todo)
                    /\ Running(sched_task') => sched_task'.stage = "fetch"
              /\ ~Running(sched_task') => sched_task' = IdleTask
              /\ Running(sched_task') => sched_task'.source = "tick"]_vars

\* C31 witness: the projects pass of a tick is running, the posts pass is over
C31_Witness ==
    /\ sched_task.source = "tick"
    /\ sched_task.todo = <<PROJECT_DATABASE_ID>>
    /\ sched_task.stage = "transaction"

\* C32 (as stated) Mirror rows are never physically removed: whatever a step does,
\* committing or rolling back, the committed page, status and tag ids only grow; and
\* a commit leaves every page of the collection that is absent from the snapshot
\* stored and flagged soft-deleted, for every snapshot.
C32_NeverRemovedAlwaysFlagged ==
    [][/\ DOMAIN db.pages \subseteq DOMAIN db'.pages
       /\ DOMAIN db.statuses \subseteq DOMAIN db'.statuses
       /\ db.tags \subseteq db'.tags
       /\ (pc = "loop" /\ pc' = "committed") =>
              \A p \in DOMAIN db.pages :
                  (db.pages[p].database_id = database_id
                      /\ p \notin ComputeIncomingIds(results))
                  => (p \in DOMAIN db'.pages /\ db'.pages[p].is_deleted)]_vars

\* C32 (amended) the ids only grow, and a commit leaves every page of the collection
\* that is absent from the snapshot stored; it is flagged soft-deleted when the
\* snapshot carries at least one page id, and keeps its flag when it carries none.
C32_NeverRemoved ==
    [][/\ DOMAIN db.pages \subseteq DOMAIN db'.pages
       /\ DOMAIN db.statuses \subseteq DOMAIN db'.statuses
       /\ db.tags \subseteq db'.tags
       /\ (pc = "loop" /\ pc' = "committed") =>
              \A p \in DOMAIN db.pages :
                  (db.pages[p].database_id = database_id
                      /\ p \notin ComputeIncomingIds(results))
                  => /\ p \in DOMAIN db'.pages
                     /\ db'.pages[p].is_deleted =
                          IF ComputeIncomingIds(results) = {}
                          THEN db.pages[p].is_deleted ELSE TRUE]_vars

\* C32 witness: a committed pass whose snapshot lacks a stored page of the
\* collection, which is still stored, with its tags and status rows, and flagged
C32_Witness ==
    /\ pc = "committed"
    /\ ComputeIncomingIds(results) # {}
    /\ db.tags # {} /\ DOMAIN db.statuses # {}
    /\ \E p \in DOMAIN db.pages :
          /\ p \notin ComputeIncomingIds(results)
          /\ db.pages[p].database_id = database_id
          /\ db.pages[p].is_deleted
          /\ db.pages[p].tags # <<>>

\* C33 Empty snapshot never truncates the mirror: a pass whose snapshot carries no
\* page id (no records, or only records without an id) changes the soft-deleted flag
\* of no stored page, and it ends by returning, with created 0 and updated 0 and
\* the number of records as total.
C33_EmptyNeverTruncates ==
    [][/\ (pc # "idle" /\ ComputeIncomingIds(results) = {}) =>
              \A p \in DOMAIN db.pages :
                  /\ p \in DOMAIN db'.pages
                  /\ db'.pages[p].is_deleted = db.pages[p].is_deleted
       /\ (pc # "idle" /\ pc' = "idle" /\ ComputeIncomingIds(results) = {}) =>
              ret' = [outcome |-> "ok", created |-> 0, updated |-> 0,
                      total |-> Len(results)]]_vars

\* C34 Referential integrity: in the committed rows and in the session of a running
\* pass (so a status or tag first seen in a record is added in the transaction of
\* the page that refers to it), the status reference of every page is null or the
\* id of a stored status, and every tag of a page is a stored tag.
C34_ReferentialIntegrity ==
    \A s \in {db, tx} :
        \A p \in DOMAIN s.pages :
            /\ s.pages[p].status_id \in {None} \cup DOMAIN s.statuses
            /\ Range(s.pages[p].tags) \subseteq s.tags

\* C34 witness: a committed page refers to a status and to tags
C34_Witness ==
    /\ pc = "committed"
    /\ \E p \in DOMAIN db.pages :
          /\ db.pages[p].status_id \in DOMAIN db.statuses
          /\ db.pages[p].tags # <<>>
          /\ Range(db.pages[p].tags) \subseteq db.tags

\* C35 Status names stay unique: no two status rows, committed or held by the session
\* after a step of the loop, have the same name; so the step that processes a record
\* whose status has a new id and a stored name raises, and the pass it ends leaves the
\* committed rows as they were.
C35_StatusNamesUnique ==
    [][/\ \A s \in {db', tx'} :
              \A a, b \in DOMAIN s.statuses :
                  s.statuses[a].name = s.statuses[b].name => a = b
       /\ (pc = "loop" /\ pc' = "idle" /\ ret'.outcome = "IntegrityError") =>
              db' = db]_vars

\* C35 witness: a pass failed on its statuses while statuses are stored
C35_Witness ==
    /\ pc = "idle"
    /\ ret.outcome = "IntegrityError"
    /\ DOMAIN db.statuses # {}
    /\ DOMAIN db.pages # {}

\* C36 Soft-deleted pages are never served: every page in the answer to a read
\* request (post list, post by id, project list, project by id) is a stored page
\* whose soft-deleted flag is not set, and a lookup by the id of a soft-deleted or
\* unknown page is answered 404 with no page.
C36_DeletedNeverServed ==
    [][reply'.serial # reply.serial =>
          /\ \A p \in reply'.body :
                 p \in DOMAIN db.pages /\ ~db.pages[p].is_deleted
          /\ (reply'.endpoint \in {"get_post", "get_project"}
                 /\ (reply'.id \notin DOMAIN db.pages \/ db.pages[reply'.id].is_deleted))
             => (reply'.status_code = 404 /\ reply'.body = {})]_vars

\* C36 witness: the lookup of a stored, soft-deleted project was answered 404
C36_Witness ==
    /\ reply.endpoint = "get_project"
    /\ reply.status_code = 404
    /\ reply.id \in DOMAIN db.pages
    /\ db.pages[reply.id].is_deleted
    /\ db.pages[reply.id].database_id = PROJECT_DATABASE_ID

\* C37 Unpublished posts are not readable: no page in the answer to a read request
\* is a page of the posts collection that has no status or a status whose name is
\* not the published one.
C37_UnpublishedNotReadable ==
    [][reply'.serial # reply.serial =>
          \A p \in reply'.body :
              ~ /\ db.pages[p].database_id = POST_DATABASE_ID
                /\ \/ db.pages[p].status_id = None
                   \/ db.statuses[db.pages[p].status_id].name # PUBLISHED]_vars

====
